---- MODULE Spec2Model ----
(***************************************************************************)
(* Model of fxai_lrr_brain.py (XAUUSD LRR Brain): the Gate Keeper, the     *)
(* sweep detector, the Lorentzian classifier, the spread median, the daily *)
(* risk state, the hybrid input resolver and the bar de-duplication of the *)
(* main loop.                                                              *)
(*                                                                         *)
(* Numbers: prices and spreads are integers in cents (0.01 $), scores are  *)
(* points, multipliers and confidences are hundredths (1.0 = 100), ratios  *)
(* (atr_to_spread, distance_atr_ratio) are whole units.                    *)
(***************************************************************************)
EXTENDS Integers, Sequences, FiniteSets, TLC

VARIABLES
    gate_call,      \* arguments of the last ai_gate_keeper call (or NoCall)
    gate_res,       \* GateResult it returned (or NoCall)
    sweep_call,     \* arguments of the last detect_sweep call (or NoCall)
    sweep_res,      \* (action, sweep_extreme) it returned (or NoCall)
    g_spread_med,   \* Robbins-Monro running median of the spread (cents)
    spread_chk,     \* history: arguments, median and result of the spread
                    \* gate after the last spread observation (or NoCall)
    spread_feed,    \* history: last observation x, run length n of x, median
                    \* before the last update (prev) and at the run's start
    lc_call,        \* bars handed to lorentzian_classify (or NoCall)
    lc_res,         \* what it returned and which bars it read (or NoCall)
    today,          \* _today_jst(): the JST calendar day, as a day number
    equity,         \* get_account_equity(): what the terminal reports now
    g_daily,        \* DailyState
    daily_last,     \* history: the last daily operation, halt and date before
                    \* it, and what is_daily_halted returned
    now,            \* time.time(), whole seconds
    g_tv_cache,     \* the latest TradingView snapshot (TvNone before the first)
    webhook_res,    \* history: body, response and snapshot before of the last
                    \* POST /webhook (or NoCall)
    hybrid_res,     \* what resolve_hybrid_ai_inputs returned, each value with
                    \* its origin, and the snapshot and time it was called with
    feed,           \* what MT5 returns for M5 now: bar count and the time of
                    \* the latest closed bar rates_m5[-2]
    g_last_bar_time,\* time of the last bar that passed the new-bar check,
                    \* 0 for None
    bars_passed,    \* history: the bar times that passed the check, in order
    poll_last,      \* history: the last poll of try_generate_lrr_signal
    jst_clock,      \* get_jst_now(): minute of the JST day, 0..1439
    session_last,   \* history: minute, rank and multiplier of the last
                    \* get_session_rank call, and minute and rank of the one
                    \* before it
    swing_call,     \* arguments of the last _find_swing_clusters call (or
                    \* NoCall)
    swing_res,      \* its pivots, all clusters it formed and the list it
                    \* returned (or NoCall)
    main_pc,        \* where main() is: init, then reset, halt, hb_ts, hb_halt,
                    \* hb_emg, generate, send, entry_load, entry_store, sleep
    main_m,         \* locals of main(): why this iteration went to sleep, the
                    \* entry_count on_entry_sent loaded and the risk to add
    hb_seen,        \* the g_hb values the halt check of this iteration read
                    \* and which message wrote each (None: not read)
    g_hb,           \* MT5HeartbeatState; last_recv_ts is the number of the
                    \* message, 0 before the first; last_equity and
                    \* last_positions are written and never read
    hb_src,         \* history: the message that wrote mt5_halt and
                    \* mt5_emg_system
    hb_pc,          \* where heartbeat_receiver_thread is: recv, w_halt, w_emg,
                    \* sync, stale
    hb_msg,         \* the message it is applying (HbNoMsg between messages)
    orders,         \* history: bar time and result of every send_signal call
    entries,        \* history: how many times on_entry_sent ran to its end
    hb_now,         \* time.time() as the heartbeat thread reads it, whole seconds
    hb_warn,        \* history: stale warnings since stale_warned was last
                    \* cleared (n) and in all (total), the gap the last one was
                    \* raised at, and the messages received and applied so far
    mgmt_call,      \* arguments of the last ai_position_management call
                    \* (or NoCall)
    mgmt_res,       \* what it returned or raised (or NoCall)
    mgmt_prev_str,  \* history: qtrend_str of the call before it (None at
                    \* the first call)
    tv_log,         \* every TVSignalCache object _parse_tv_alert has built,
                    \* in order of creation
    tv_pub,         \* index in tv_log of the object g_tv_cache refers to
                    \* (0: None)
    wh_req,         \* per webhook request thread: its position and the
                    \* object it parsed
    rs,             \* resolve_hybrid_ai_inputs in the main thread: its
                    \* position, its local tv and what it has read so far
    news_cfg,       \* NEWS_SCHEDULE as the process was started with
    news_clock,     \* get_jst_now(), minutes
    g_news_block_until,
    prev_news_blocked,
    news_sent,      \* history: the last NEWS_BLOCK message that reached the
                    \* socket (or NoCall)
    news_last       \* history: the last main-loop iteration (or NoCall)

gateVars == <<gate_call, gate_res>>
sweepVars == <<sweep_call, sweep_res>>
spreadVars == <<g_spread_med, spread_feed, spread_chk>>
lcVars == <<lc_call, lc_res>>
dailyVars == <<today, equity, g_daily, daily_last>>
hybridVars == <<now, g_tv_cache, webhook_res, hybrid_res>>
barVars == <<feed, g_last_bar_time, bars_passed, poll_last>>
sessionVars == <<jst_clock, session_last>>
swingVars == <<swing_call, swing_res>>
mainVars == <<main_pc, main_m, hb_seen, g_hb, hb_src, hb_pc, hb_msg, orders, entries>>
hbClockVars == <<hb_now, hb_warn>>
mgmtVars == <<mgmt_call, mgmt_res, mgmt_prev_str>>
snapVars == <<tv_log, tv_pub, wh_req, rs>>
newsVars == <<news_cfg, news_clock, g_news_block_until, prev_news_blocked, news_sent, news_last>>
vars == <<gateVars, sweepVars, spreadVars, lcVars, dailyVars, hybridVars, barVars, sessionVars, swingVars, mainVars, hbClockVars, mgmtVars, snapVars, newsVars>>

NoCall == [called |-> FALSE]

Max(a, b) == IF a >= b THEN a ELSE b
Min(a, b) == IF a <= b THEN a ELSE b
Abs(a) == IF a >= 0 THEN a ELSE -a

(***************************************************************************)
(* Section 7: SpreadMed, Robbins-Monro running median                      *)
(***************************************************************************)
SPREAD_MED_LR == 3
SPREAD_MED_INIT == 20

Sign(d) == IF d > 0 THEN 1 ELSE IF d < 0 THEN -1 ELSE 0

\* mutant of SpreadMedStep: an observation equal to the median counts as above
SpreadMedStep_ZeroIsUp(med, spread) ==
    LET diff == spread - med
    IN  med + SPREAD_MED_LR * (IF diff >= 0 THEN 1 ELSE -1)

\* med_new = med_old + lr * sign(x - med_old)
SpreadMedStep(med, spread) ==
    LET diff == spread - med
    IN  med + SPREAD_MED_LR * (IF diff > 0 THEN 1 ELSE IF diff < 0 THEN -1 ELSE 0)

update_spread_med(spread) ==
    g_spread_med' = SpreadMedStep(g_spread_med, spread)

(***************************************************************************)
(* Section 12: liquidity sweep detection on one closed bar                 *)
(***************************************************************************)
SWEEP_MIN_PIPS == 2
SWEEP_MAX_PIPS == 50

\* mutant of SweepUpper: the reverse-close test (close >= swing_high) is lost
SweepUpper_NoReverseClose(bar, swing_high, body) ==
    LET overshoot == bar.high - swing_high
        wick_upper == bar.high - Max(bar.open, bar.close)
    IN  IF overshoot > SWEEP_MAX_PIPS THEN [action |-> "NONE", sweep_extreme |-> 0]
        ELSE IF body > 0 /\ wick_upper > body * 3
             THEN [action |-> "NONE", sweep_extreme |-> 0]
        ELSE [action |-> "SELL", sweep_extreme |-> bar.high]

\* the upper-pool branch, entered when high > swing_high + SWEEP_MIN_PIPS
SweepUpper(bar, swing_high, body) ==
    LET overshoot == bar.high - swing_high
        wick_upper == bar.high - Max(bar.open, bar.close)
    IN  IF overshoot > SWEEP_MAX_PIPS THEN [action |-> "NONE", sweep_extreme |-> 0]
        ELSE IF bar.close >= swing_high THEN [action |-> "NONE", sweep_extreme |-> 0]
        ELSE IF body > 0 /\ wick_upper > body * 3
             THEN [action |-> "NONE", sweep_extreme |-> 0]
        ELSE [action |-> "SELL", sweep_extreme |-> bar.high]

\* the lower-pool branch, entered when low < swing_low - SWEEP_MIN_PIPS
SweepLower(bar, swing_low, body) ==
    LET overshoot == swing_low - bar.low
        wick_lower == Min(bar.open, bar.close) - bar.low
    IN  IF overshoot > SWEEP_MAX_PIPS THEN [action |-> "NONE", sweep_extreme |-> 0]
        ELSE IF bar.close <= swing_low THEN [action |-> "NONE", sweep_extreme |-> 0]
        ELSE IF body > 0 /\ wick_lower > body * 3
             THEN [action |-> "NONE", sweep_extreme |-> 0]
        ELSE [action |-> "BUY", sweep_extreme |-> bar.low]

detect_sweep(bar, swing_high, swing_low, atr_m5) ==
    LET body == Abs(bar.close - bar.open)
    IN  IF bar.high > swing_high + SWEEP_MIN_PIPS
        THEN SweepUpper(bar, swing_high, body)
        ELSE IF bar.low < swing_low - SWEEP_MIN_PIPS
        THEN SweepLower(bar, swing_low, body)
        ELSE [action |-> "NONE", sweep_extreme |-> 0]

(***************************************************************************)
(* Section 26: Lorentzian Classification (k-NN over strided past bars)     *)
(* rates is [n, close, feat]: n bars indexed 0..n-1, close[i] the close of *)
(* bar i and feat[i] the feature vector of rates[:i+1] reduced to one      *)
(* number; the distance |q - f| stands for sum(log1p(|q_feat - feat|)).    *)
(***************************************************************************)
LC_NEIGHBORS == 8
LC_MAX_BARS_BK == 200
LC_MIN_BARS_BK == 4
\* "no feature vector": features are never negative
None == -1

\* Python range(start, stop, step) for step > 0, as a sequence
Range(start, stop, step) ==
    LET cnt == IF stop > start THEN (stop - start + step - 1) \div step ELSE 0
    IN  [k \in 1..cnt |-> start + (k - 1) * step]

_extract_lc_features(rates, idx) ==
    IF idx < 25 THEN None ELSE rates.feat[idx]

\* mutant of LcSampleStop: the sampling loop runs up to the query bar
LcSampleStop_AtQuery(qidx) == qidx

LcSampleStop(qidx) == qidx - LC_MIN_BARS_BK

\* the indices the sampling loop visits
LcSampled(qidx) ==
    LET earliest == Max(25, qidx - LC_MAX_BARS_BK)
    IN  Range(earliest, LcSampleStop(qidx), LC_MIN_BARS_BK)

\* distances: list of (d, i) in loop order, skipping bars without features
LcDistances(rates, qidx) ==
    LET q_feat == _extract_lc_features(rates, qidx)
        all == [k \in DOMAIN LcSampled(qidx) |->
                  LET i == LcSampled(qidx)[k]
                      feat == _extract_lc_features(rates, i)
                  IN  IF feat = None THEN <<None, i>>
                      ELSE <<Abs(q_feat - feat), i>>]
    IN  SelectSeq(all, LAMBDA e : e[1] # None)

\* stable insertion of e into a list sorted by distance
RECURSIVE LcInsert(_, _)
LcInsert(sorted, e) ==
    IF sorted = <<>> THEN <<e>>
    ELSE IF sorted[Len(sorted)][1] <= e[1] THEN Append(sorted, e)
    ELSE Append(LcInsert(SubSeq(sorted, 1, Len(sorted) - 1), e),
                sorted[Len(sorted)])

\* distances.sort(key=lambda x: x[0]) -- stable
RECURSIVE LcSort(_)
LcSort(ds) ==
    IF ds = <<>> THEN <<>>
    ELSE LcInsert(LcSort(SubSeq(ds, 1, Len(ds) - 1)), ds[Len(ds)])

LcNeighbors(rates, qidx) ==
    LET sorted == LcSort(LcDistances(rates, qidx))
    IN  SubSeq(sorted, 1, Min(LC_NEIGHBORS, Len(sorted)))

\* the vote loop: counts and the set of future indices whose close is read
RECURSIVE LcVotes(_, _, _)
LcVotes(rates, qidx, neighbors) ==
    IF neighbors = <<>> THEN [buy |-> 0, sell |-> 0, reads |-> {}]
    ELSE LET rest == LcVotes(rates, qidx, SubSeq(neighbors, 1, Len(neighbors) - 1))
             idx == neighbors[Len(neighbors)][2]
             future_idx == idx + 4
         IN  IF future_idx >= qidx THEN rest
             ELSE LET future_ret == rates.close[future_idx] - rates.close[idx]
                  IN  [buy   |-> rest.buy + (IF future_ret > 0 THEN 1 ELSE 0),
                       sell  |-> rest.sell + (IF future_ret < 0 THEN 1 ELSE 0),
                       reads |-> rest.reads \cup {future_idx}]

\* mutant of LcVerdict: a tie is decided for BUY
LcVerdict_TieBuys(buy_votes, sell_votes) ==
    LET total == buy_votes + sell_votes
    IN  IF total = 0 THEN <<"NEUTRAL", 0>>
        ELSE IF buy_votes >= sell_votes THEN <<"BUY", (buy_votes * 100) \div total>>
        ELSE <<"SELL", (sell_votes * 100) \div total>>

\* direction and confidence (hundredths) from the vote counts
LcVerdict(buy_votes, sell_votes) ==
    LET total == buy_votes + sell_votes
    IN  IF total = 0 THEN <<"NEUTRAL", 0>>
        ELSE IF buy_votes > sell_votes THEN <<"BUY", (buy_votes * 100) \div total>>
        ELSE IF sell_votes > buy_votes THEN <<"SELL", (sell_votes * 100) \div total>>
        ELSE <<"NEUTRAL", 50>>

\* the returned (direction, confidence) with the loop's trace
lorentzian_classify(rates_m5) ==
    LET n == rates_m5.n
        qidx == n - 2
        none == [direction |-> "NEUTRAL", conf |-> 0, sampled |-> <<>>,
                 neighbors |-> <<>>, buy_votes |-> 0, sell_votes |-> 0,
                 reads |-> {}]
    IN  IF n < 30 THEN none
        ELSE IF _extract_lc_features(rates_m5, qidx) = None THEN none
        ELSE LET distances == LcDistances(rates_m5, qidx)
                 neighbors == LcNeighbors(rates_m5, qidx)
                 votes == LcVotes(rates_m5, qidx, neighbors)
                 v == LcVerdict(votes.buy, votes.sell)
             IN  IF distances = <<>>
                 THEN [none EXCEPT !.sampled = LcSampled(qidx)]
                 ELSE [direction |-> v[1], conf |-> v[2],
                       sampled |-> LcSampled(qidx),
                       neighbors |-> [k \in DOMAIN neighbors |-> neighbors[k][2]],
                       buy_votes |-> votes.buy, sell_votes |-> votes.sell,
                       reads |-> votes.reads]

(***************************************************************************)
(* Section 22: daily management.  Dates are day numbers, 0 is the empty    *)
(* string of a fresh DailyState; equity is in account currency units.      *)
(***************************************************************************)
MAX_ENTRIES_PER_DAY == 3
MAX_CONSEC_LOSSES == 3
DAILY_LOSS_CAP_PCT == 2

DailyState ==
    [date |-> 0, entry_count |-> 0, consec_losses |-> 0, daily_risk_used |-> 0,
     day_start_equity |-> 0, halt |-> FALSE, halt_reason |-> ""]

\* check_daily_reset: the DailyState it leaves behind
DailyReset(d, day, eq) ==
    IF d.date = day THEN d
    ELSE [date |-> day, entry_count |-> 0, consec_losses |-> 0,
          daily_risk_used |-> 0, day_start_equity |-> eq,
          halt |-> FALSE, halt_reason |-> ""]

\* loss_pct >= DAILY_LOSS_CAP_PCT with loss_pct = (start - eq) / start * 100
DailyLossHit(d, eq) ==
    /\ d.day_start_equity > 0
    /\ (d.day_start_equity - eq) * 100 >= DAILY_LOSS_CAP_PCT * d.day_start_equity

\* mutant of DailyHaltCheck: the latched flag is not consulted first
DailyHaltCheck_NoLatch(d, eq) ==
    IF d.entry_count >= MAX_ENTRIES_PER_DAY
    THEN [d |-> [d EXCEPT !.halt = TRUE, !.halt_reason = "max_entries_per_day"],
          halted |-> TRUE, reason |-> "max_entries_per_day"]
    ELSE IF d.consec_losses >= MAX_CONSEC_LOSSES
    THEN [d |-> [d EXCEPT !.halt = TRUE, !.halt_reason = "consec_losses"],
          halted |-> TRUE, reason |-> "consec_losses"]
    ELSE IF DailyLossHit(d, eq)
    THEN [d |-> [d EXCEPT !.halt = TRUE, !.halt_reason = "daily_loss_cap"],
          halted |-> TRUE, reason |-> "daily_loss_cap"]
    ELSE [d |-> d, halted |-> FALSE, reason |-> ""]

\* is_daily_halted: the DailyState it leaves behind and the pair it returns
DailyHaltCheck(d, eq) ==
    IF d.halt
    THEN [d |-> d, halted |-> TRUE, reason |-> d.halt_reason]
    ELSE IF d.entry_count >= MAX_ENTRIES_PER_DAY
    THEN [d |-> [d EXCEPT !.halt = TRUE, !.halt_reason = "max_entries_per_day"],
          halted |-> TRUE, reason |-> "max_entries_per_day"]
    ELSE IF d.consec_losses >= MAX_CONSEC_LOSSES
    THEN [d |-> [d EXCEPT !.halt = TRUE, !.halt_reason = "consec_losses"],
          halted |-> TRUE, reason |-> "consec_losses"]
    ELSE IF DailyLossHit(d, eq)
    THEN [d |-> [d EXCEPT !.halt = TRUE, !.halt_reason = "daily_loss_cap"],
          halted |-> TRUE, reason |-> "daily_loss_cap"]
    ELSE [d |-> d, halted |-> FALSE, reason |-> ""]

DailyLast(op, halted) ==
    [op |-> op, halt_before |-> g_daily.halt, date_before |-> g_daily.date,
     halted |-> halted]

check_daily_reset ==
    /\ g_daily' = DailyReset(g_daily, today, equity)
    /\ daily_last' = DailyLast("check_daily_reset", FALSE)

is_daily_halted ==
    /\ g_daily' = DailyHaltCheck(g_daily, equity).d
    /\ daily_last' = DailyLast("is_daily_halted", DailyHaltCheck(g_daily, equity).halted)

on_entry_sent(risk_pct) ==
    /\ g_daily' = [g_daily EXCEPT !.entry_count = @ + 1,
                                  !.daily_risk_used = @ + risk_pct]
    /\ daily_last' = DailyLast("on_entry_sent", FALSE)

on_trade_closed(profit) ==
    /\ g_daily' = [g_daily EXCEPT !.consec_losses = IF profit < 0 THEN @ + 1 ELSE 0]
    /\ daily_last' = DailyLast("on_trade_closed", FALSE)

\* heartbeat_receiver_thread: the daily_entries field overwrites entry_count
HbEntrySync(mt5_entries) ==
    /\ g_daily' = IF mt5_entries >= 0 /\ g_daily.entry_count # mt5_entries
                  THEN [g_daily EXCEPT !.entry_count = mt5_entries]
                  ELSE g_daily
    /\ daily_last' = DailyLast("heartbeat", FALSE)

(***************************************************************************)
(* Section 25: market context thresholds                                   *)
(***************************************************************************)
DIST_HARD_REJECT == 5
DIST_OVERRIDE_THR == 4
ATS_HARD_REJECT == 10
ATS_WARN_THR == 15

\* dataclass MarketContext with its defaults
MarketContext ==
    [distance_atr_ratio |-> 0, direction_vs_sma |-> "", atr_to_spread |-> 0,
     volatility_ratio |-> 100, vol_state |-> "NORMAL", current_session |-> "A",
     atr_m5 |-> 0, atr_m15_raw |-> 0, sma20_m15 |-> 0]

\* dataclass ZoneResult with its defaults
ZoneResult ==
    [confirmed_support |-> FALSE, confirmed_resist |-> FALSE,
     touching_zone |-> FALSE, zone_type |-> "", zone_price |-> 0,
     zone_strength |-> 0]

(***************************************************************************)
(* Section 31: AI GateKeeper                                               *)
(***************************************************************************)
GATE_MIN_SCORE == 30
GATE_STRONG_SCORE == 60

\* dataclass GateResult with its defaults (multiplier defaults to 1.0)
GateResult ==
    [verdict |-> "SKIP", score |-> 0, multiplier |-> 100, reason |-> <<>>,
     hard_reject |-> FALSE, lc_direction |-> "NEUTRAL", lc_conf |-> 0,
     qtrend_dir |-> "NEUTRAL", qtrend_str |-> "NORMAL",
     zone_support |-> FALSE, zone_resist |-> FALSE, osgfc_color |-> "NEUTRAL",
     ctx |-> MarketContext, m15_fvg_targets |-> <<>>]

\* one entry of the reasons list: a tag and the number formatted into it
R(tag, val) == [tag |-> tag, val |-> val]

\* Step 2: trap penalties, each a pair <<points, reasons>>
GateTraps(ctx) ==
    LET t1 == IF ctx.vol_state = "SQUEEZE"
              THEN <<-20, <<R("squeeze", ctx.volatility_ratio)>> >>
              ELSE <<0, <<>> >>
        t2 == IF ctx.distance_atr_ratio >= DIST_OVERRIDE_THR
              THEN <<-15, <<R("dist_warn", ctx.distance_atr_ratio)>> >>
              ELSE <<0, <<>> >>
        t3 == IF 0 < ctx.atr_to_spread /\ ctx.atr_to_spread < ATS_WARN_THR
              THEN <<-10, <<R("low_ev", ctx.atr_to_spread)>> >>
              ELSE <<0, <<>> >>
    IN  <<t1[1] + t2[1] + t3[1], t1[2] \o t2[2] \o t3[2]>>

\* Step 3 [A]: Lorentzian classification
GateLC(action, lc_dir, lc_conf) ==
    IF lc_dir = action
    THEN LET pts == IF lc_conf >= 75 THEN 25 ELSE 15
         IN  <<pts, <<R("LC_match", pts)>> >>
    ELSE IF lc_dir \notin {"NEUTRAL", ""}
    THEN <<-20, <<R("LC_contra", -20)>> >>
    ELSE <<0, <<R("LC_neutral", 0)>> >>

\* Step 3 [B]: Q-Trend
GateQT(action, qtrend_dir, qtrend_str, qtrend_changed) ==
    IF qtrend_dir = action
    THEN LET pts == IF qtrend_str = "STRONG" THEN 30 ELSE 15
         IN  IF qtrend_changed
             THEN <<pts + 10, <<R("QT_match", pts), R("QT_change", 10)>> >>
             ELSE <<pts, <<R("QT_match", pts)>> >>
    ELSE IF qtrend_dir \notin {"NEUTRAL", ""}
    THEN <<-25, <<R("QT_contra", -25)>> >>
    ELSE <<0, <<R("QT_neutral", 0)>> >>

\* Step 3 [C]: M15 confirmed zones
GateZone(action, zone) ==
    LET c1 == IF action = "BUY" /\ zone.confirmed_support
              THEN <<20, <<R("ZONE_SUP_M15", zone.zone_price)>> >>
              ELSE IF action = "SELL" /\ zone.confirmed_resist
              THEN <<20, <<R("ZONE_RES_M15", zone.zone_price)>> >>
              ELSE <<0, <<>> >>
        c2 == IF action = "BUY" /\ zone.confirmed_resist
              THEN <<-15, <<R("ZONE_RES_BLOCK", -15)>> >>
              ELSE <<0, <<>> >>
        c3 == IF action = "SELL" /\ zone.confirmed_support
              THEN <<-15, <<R("ZONE_SUP_BLOCK", -15)>> >>
              ELSE <<0, <<>> >>
    IN  <<c1[1] + c2[1] + c3[1], c1[2] \o c2[2] \o c3[2]>>

\* Step 3 [D]: M5 zone touch
GateTouch(action, zone) ==
    IF zone.touching_zone
    THEN IF (action = "BUY" /\ zone.zone_type = "SUPPORT")
            \/ (action = "SELL" /\ zone.zone_type = "RESIST")
         THEN <<5, <<R("ZONE_TOUCH", 5)>> >>
         ELSE <<-10, <<R("ZONE_TOUCH_CONTRA", -10)>> >>
    ELSE <<0, <<>> >>

\* Step 3 [E]: fair value gaps (M15 targets, M5)
GateFVG(fvg_m5_found, m15_fvg_targets) ==
    LET e1 == IF m15_fvg_targets # <<>>
              THEN <<10, <<R("M15_FVG", m15_fvg_targets[1])>> >>
              ELSE <<0, <<>> >>
        e2 == IF fvg_m5_found THEN <<5, <<R("M5_FVG", 5)>> >> ELSE <<0, <<>> >>
    IN  <<e1[1] + e2[1], e1[2] \o e2[2]>>

\* Step 3 [F]: OSGFC colour filter
GateOSGFC(action, osgfc_color, osgfc_changed) ==
    LET osgfc_match == (action = "BUY" /\ osgfc_color = "GREEN")
                       \/ (action = "SELL" /\ osgfc_color = "RED")
    IN  IF osgfc_match
        THEN LET pts == IF osgfc_changed THEN 15 ELSE 10
             IN  <<pts, <<R("OSGFC_match", pts)>> >>
        ELSE IF osgfc_color \notin {"NEUTRAL", ""}
        THEN <<-10, <<R("OSGFC_contra", -10)>> >>
        ELSE <<0, <<>> >>

\* Step 3 [G]: session rank bonus table, .get(session_rank, 0)
GateSession(session_rank) ==
    LET sb == CASE session_rank = "S" -> 10
                [] session_rank = "A" -> 0
                [] session_rank = "B" -> -5
                [] session_rank = "INVALID" -> -50
                [] OTHER -> 0
    IN  IF sb # 0 THEN <<sb, <<R("SESS", sb)>> >> ELSE <<0, <<>> >>

\* Step 4: multiplier tier from the clamped score
GateMult(score, mtf_mult) ==
    IF score >= GATE_STRONG_SCORE THEN (mtf_mult * 100) \div 100
    ELSE IF score >= GATE_MIN_SCORE THEN (mtf_mult * 80) \div 100
    ELSE 0

\* Step 1: the hard-reject early returns; result is the GateResult built so far
\* mutant of GateHardReject: a PANIC regime is not rejected in step 1
GateHardReject_NoPanic(result, ctx) ==
    IF ctx.atr_to_spread > 0 /\ ctx.atr_to_spread < ATS_HARD_REJECT
    THEN [result EXCEPT !.verdict = "HARD_REJECT", !.hard_reject = TRUE,
                        !.reason = <<R("EV_REJECT", ctx.atr_to_spread)>>]
    ELSE IF ctx.distance_atr_ratio >= DIST_HARD_REJECT
    THEN [result EXCEPT !.verdict = "HARD_REJECT", !.hard_reject = TRUE,
                        !.reason = <<R("DIST_REJECT", ctx.distance_atr_ratio)>>]
    ELSE result

GateHardReject(result, ctx) ==
    IF ctx.atr_to_spread > 0 /\ ctx.atr_to_spread < ATS_HARD_REJECT
    THEN [result EXCEPT !.verdict = "HARD_REJECT", !.hard_reject = TRUE,
                        !.reason = <<R("EV_REJECT", ctx.atr_to_spread)>>]
    ELSE IF ctx.distance_atr_ratio >= DIST_HARD_REJECT
    THEN [result EXCEPT !.verdict = "HARD_REJECT", !.hard_reject = TRUE,
                        !.reason = <<R("DIST_REJECT", ctx.distance_atr_ratio)>>]
    ELSE IF ctx.vol_state = "PANIC"
    THEN [result EXCEPT !.verdict = "HARD_REJECT", !.hard_reject = TRUE,
                        !.reason = <<R("PANIC", ctx.volatility_ratio)>>]
    ELSE result

\* Step 5: final verdict; result.multiplier is assigned in the ENTER branch only
GateVerdict(result, score, mult, reasons) ==
    IF mult <= 0
    THEN [result EXCEPT !.verdict = "SKIP", !.score = score, !.reason = reasons]
    ELSE [result EXCEPT !.verdict = "ENTER", !.multiplier = mult,
                        !.score = score, !.reason = reasons]

ai_gate_keeper(action, ctx, lc_dir, lc_conf, qtrend_dir, qtrend_str, qtrend_changed, zone, osgfc_color, osgfc_changed, fvg_m5_found, m15_fvg_targets, session_rank, mtf_mult) ==
    LET result == [GateResult EXCEPT
                       !.ctx = ctx, !.lc_direction = lc_dir, !.lc_conf = lc_conf,
                       !.qtrend_dir = qtrend_dir, !.qtrend_str = qtrend_str,
                       !.zone_support = zone.confirmed_support,
                       !.zone_resist = zone.confirmed_resist,
                       !.osgfc_color = osgfc_color,
                       !.m15_fvg_targets = m15_fvg_targets]
        hard == GateHardReject(result, ctx)
        p2 == GateTraps(ctx)
        pA == GateLC(action, lc_dir, lc_conf)
        pB == GateQT(action, qtrend_dir, qtrend_str, qtrend_changed)
        pC == GateZone(action, zone)
        pD == GateTouch(action, zone)
        pE == GateFVG(fvg_m5_found, m15_fvg_targets)
        pF == GateOSGFC(action, osgfc_color, osgfc_changed)
        pG == GateSession(session_rank)
        raw == p2[1] + pA[1] + pB[1] + pC[1] + pD[1] + pE[1] + pF[1] + pG[1]
        reasons == p2[2] \o pA[2] \o pB[2] \o pC[2] \o pD[2] \o pE[2]
                       \o pF[2] \o pG[2]
        score == Max(-100, Min(150, raw))
        mult == GateMult(score, mtf_mult)
    IN  IF hard.hard_reject THEN hard
        ELSE GateVerdict(result, score, mult, reasons)

(***************************************************************************)
(* Section 32: TradingView webhook snapshot and the hybrid input resolver. *)
(* Every value the resolver returns is paired with its origin: "TV" read   *)
(* from the snapshot, "MT5" computed in this process, "DEFAULT" left at    *)
(* the dataclass default.                                                  *)
(***************************************************************************)
TV_SIGNAL_STALE_SEC == 60
TvNone == [present |-> FALSE]

T(src, v) == [src |-> src, v |-> v]
TagAll(rec, src) == [f \in DOMAIN rec |-> T(src, rec[f])]

\* a JSON value: an object (a function from its keys), a non-empty array, or
\* None
JsonObject(fields) == [kind |-> "object", data |-> fields]
JsonArray == [kind |-> "array"]
JsonNone == [kind |-> "none"]
EmptyFields == [key \in {} |-> 0]

\* request.get_json(force=True, silent=True): None for a body that is not JSON
get_json(body) == IF body.kind = "invalid" THEN JsonNone ELSE body

\* x or {}
OrEmptyObject(json) == IF json.kind = "none" THEN JsonObject(EmptyFields) ELSE json

\* data.get(key, default)
Get(data, key, default) == IF key \in DOMAIN data THEN data[key] ELSE default

\* str.upper() on the strings an alert carries
Upper(str) ==
    IF str = "buy" THEN "BUY" ELSE IF str = "sell" THEN "SELL"
    ELSE IF str = "neutral" THEN "NEUTRAL" ELSE str

\* float() on an alert field: hundredths, or None when it raises
ParseFloat(raw) ==
    IF raw = "0.82" THEN 82 ELSE IF raw = "0.6" THEN 60
    ELSE IF raw = "0.0" THEN 0 ELSE None

\* raw_fvg[:3]
FirstThree(seq) == SubSeq(seq, 1, Min(3, Len(seq)))

\* _parse_tv_alert at time t: the new TVSignalCache, or TvNone when any
\* statement raises (data.get on an array, float() on text); the fields not
\* listed in TvAlerts are never sent and take their defaults
_parse_tv_alert(json, t) ==
    IF json.kind # "object" THEN TvNone
    ELSE LET data == json.data
         IN  IF ParseFloat(Get(data, "lc_conf", "0.0")) = None THEN TvNone
             ELSE [present |-> TRUE, recv_ts |-> t,
                   lc_direction |-> Upper(Get(data, "lc_direction", "NEUTRAL")),
                   lc_conf |-> ParseFloat(Get(data, "lc_conf", "0.0")),
                   qtrend_dir |-> Upper(Get(data, "qtrend_dir", "NEUTRAL")),
                   qtrend_str |-> "NORMAL", qtrend_changed |-> FALSE,
                   zone_type |-> "", zone_price |-> 0,
                   zone_confirmed_support |-> Get(data, "zone_confirmed_support", FALSE),
                   zone_confirmed_resist |-> FALSE, zone_touching |-> FALSE,
                   zone_strength |-> 0,
                   osgfc_color |-> "NEUTRAL", osgfc_changed |-> FALSE,
                   distance_atr_ratio |-> Get(data, "distance_atr_ratio", 0),
                   atr_to_spread |-> Get(data, "atr_to_spread", 0),
                   volatility_ratio |-> 100, vol_state |-> "NORMAL",
                   direction_vs_sma |-> Get(data, "direction_vs_sma", ""),
                   sma20_m15 |-> 0,
                   m15_fvg_targets |-> FirstThree(Get(data, "m15_fvg_targets", <<>>)),
                   source |-> "TV"]

\* POST /webhook at time t with the snapshot cache in place: the snapshot it
\* leaves and the HTTP status it answers
webhook(body, cache, t) ==
    LET data == OrEmptyObject(get_json(body))
        parsed == _parse_tv_alert(data, t)
    IN  IF parsed # TvNone
        THEN [cache |-> parsed, status |-> 200, ok |-> TRUE]
        ELSE [cache |-> cache, status |-> 400, ok |-> FALSE]

\* mutant of _is_tv_fresh: any snapshot counts as fresh
_is_tv_fresh_NoAgeCheck(cache, t) == cache.present

_is_tv_fresh(cache, t) ==
    IF ~cache.present THEN FALSE
    ELSE t - cache.recv_ts <= TV_SIGNAL_STALE_SEC

_tv_cache_to_zone_result(c) ==
    [ZoneResult EXCEPT !.confirmed_support = c.zone_confirmed_support,
                       !.confirmed_resist = c.zone_confirmed_resist,
                       !.touching_zone = c.zone_touching,
                       !.zone_type = c.zone_type,
                       !.zone_price = c.zone_price,
                       !.zone_strength = c.zone_strength]

\* atr is calc_atr(rates_m5, 14) computed in this process
_tv_cache_to_market_context(c, atr, spread, session_rank) ==
    [TagAll(MarketContext, "DEFAULT") EXCEPT
        !.current_session = T("MT5", session_rank),
        !.distance_atr_ratio = T("TV", c.distance_atr_ratio),
        !.atr_to_spread = IF c.atr_to_spread > 0 THEN T("TV", c.atr_to_spread)
                          ELSE T("MT5", IF spread > 0 THEN atr \div spread ELSE 0),
        !.volatility_ratio = T("TV", c.volatility_ratio),
        !.vol_state = T("TV", c.vol_state),
        !.direction_vs_sma = T("TV", c.direction_vs_sma),
        !.sma20_m15 = T("TV", c.sma20_m15),
        !.atr_m5 = T("MT5", atr)]

\* local is what calc_market_context, lorentzian_classify, calc_qtrend,
\* detect_zones, calc_osgfc and find_m15_fvg_targets compute from the bars
resolve_hybrid_ai_inputs(tv, t, local, atr, spread, session_rank) ==
    IF _is_tv_fresh(tv, t)
    THEN [ctx |-> _tv_cache_to_market_context(tv, atr, spread, session_rank),
          lc_dir |-> T("TV", tv.lc_direction), lc_conf |-> T("TV", tv.lc_conf),
          qtrend_dir |-> T("TV", tv.qtrend_dir), qtrend_str |-> T("TV", tv.qtrend_str),
          qtrend_changed |-> T("TV", tv.qtrend_changed),
          zone |-> T("TV", _tv_cache_to_zone_result(tv)),
          osgfc_color |-> T("TV", tv.osgfc_color),
          osgfc_changed |-> T("TV", tv.osgfc_changed),
          m15_fvg_targets |-> T("TV", tv.m15_fvg_targets),
          source_tag |-> "TV"]
    ELSE [ctx |-> TagAll([local.ctx EXCEPT !.current_session = session_rank], "MT5"),
          lc_dir |-> T("MT5", local.lc_dir), lc_conf |-> T("MT5", local.lc_conf),
          qtrend_dir |-> T("MT5", local.qtrend_dir), qtrend_str |-> T("MT5", local.qtrend_str),
          qtrend_changed |-> T("MT5", local.qtrend_changed),
          zone |-> T("MT5", local.zone),
          osgfc_color |-> T("MT5", local.osgfc_color),
          osgfc_changed |-> T("MT5", local.osgfc_changed),
          m15_fvg_targets |-> T("MT5", local.m15_fvg_targets),
          source_tag |-> "MT5"]

(***************************************************************************)
(* Section 9: session rank from the JST time of day; multipliers are       *)
(* hundredths (1.5 = 150)                                                  *)
(***************************************************************************)
\* mutant of get_session_rank: the S band starts one minute late
get_session_rank_LateS(h, m) ==
    LET time_min == h * 60 + m
    IN  IF 720 <= time_min /\ time_min <= 1019 THEN <<"INVALID", 0>>
        ELSE IF (22 * 60 + 20) < time_min /\ time_min <= (23 * 60) THEN <<"S", 150>>
        ELSE IF (17 * 60) <= time_min /\ time_min <= (18 * 60 + 30) THEN <<"A", 100>>
        ELSE IF (22 * 60) <= time_min /\ time_min <= (22 * 60 + 19) THEN <<"A", 100>>
        ELSE IF (3 * 60) <= time_min /\ time_min <= (3 * 60 + 59) THEN <<"B", 70>>
        ELSE <<"A", 100>>

\* h, m are now_jst.hour and now_jst.minute
get_session_rank(h, m) ==
    LET time_min == h * 60 + m
    IN  IF 720 <= time_min /\ time_min <= 1019 THEN <<"INVALID", 0>>
        ELSE IF (22 * 60 + 20) <= time_min /\ time_min <= (23 * 60) THEN <<"S", 150>>
        ELSE IF (17 * 60) <= time_min /\ time_min <= (18 * 60 + 30) THEN <<"A", 100>>
        ELSE IF (22 * 60) <= time_min /\ time_min <= (22 * 60 + 19) THEN <<"A", 100>>
        ELSE IF (3 * 60) <= time_min /\ time_min <= (3 * 60 + 59) THEN <<"B", 70>>
        ELSE <<"A", 100>>

(***************************************************************************)
(* Section 28: swing clusters of the Zones Detector.  ZONE_WIDTH_FACTOR is *)
(* in tenths (0.4 = 4).  A cluster is kept as [sum, cnt], its price being  *)
(* sum / cnt: (cp * cnt + p) / (cnt + 1) is then (sum + p) / (cnt + 1).    *)
(***************************************************************************)
ZONE_WIDTH_FACTOR == 4
ZONE_SWING_PERIOD == 5
ZONE_MIN_TOUCHES == 2

\* bar i is a swing high / low against up to sw bars on each side
IsSwing(rates, i, is_high) ==
    LET sw == ZONE_SWING_PERIOD
        before == Max(0, i - sw)..(i - 1)
        after == (i + 1)..(Min(rates.n, i + sw + 1) - 1)
    IN  IF is_high
        THEN /\ \A x \in before : rates.high[i] >= rates.high[x]
             /\ \A x \in after : rates.high[i] >= rates.high[x]
        ELSE /\ \A x \in before : rates.low[i] <= rates.low[x]
             /\ \A x \in after : rates.low[i] <= rates.low[x]

\* the list prices, in bar order
SwingPrices(rates, is_high) ==
    LET sw == ZONE_SWING_PERIOD
        idxs == Range(sw, rates.n - sw, 1)
        swings == SelectSeq(idxs, LAMBDA i : IsSwing(rates, i, is_high))
    IN  [k \in DOMAIN swings |->
            IF is_high THEN rates.high[swings[k]] ELSE rates.low[swings[k]]]

\* sorted(prices)
RECURSIVE SortedPrices(_)
SortedPrices(prices) ==
    IF prices = <<>> THEN <<>>
    ELSE LET rest == SortedPrices(SubSeq(prices, 1, Len(prices) - 1))
             p == prices[Len(prices)]
         IN  SelectSeq(rest, LAMBDA x : x <= p) \o <<p>> \o SelectSeq(rest, LAMBDA x : x > p)

\* mutant of ClusterFits: the width is the whole ATR
ClusterFits_WholeAtr(p, c, atr) ==
    Abs(p * c.cnt - c.sum) <= atr * c.cnt

\* abs(p - cp) <= width with cp = sum / cnt and width = atr * ZONE_WIDTH_FACTOR
ClusterFits(p, c, atr) ==
    Abs(p * c.cnt - c.sum) * 10 <= atr * ZONE_WIDTH_FACTOR * c.cnt

\* one round of the clustering loop: p joins the first cluster it fits
ClusterAdd(clusters, p, atr) ==
    LET fits == {idx \in DOMAIN clusters : ClusterFits(p, clusters[idx], atr)}
    IN  IF fits = {} THEN Append(clusters, [sum |-> p, cnt |-> 1])
        ELSE LET idx == CHOOSE i \in fits : \A j \in fits : i <= j
             IN  [clusters EXCEPT ![idx] = [sum |-> @.sum + p, cnt |-> @.cnt + 1]]

RECURSIVE ClusterAll(_, _)
ClusterAll(sorted, atr) ==
    IF sorted = <<>> THEN <<>>
    ELSE ClusterAdd(ClusterAll(SubSeq(sorted, 1, Len(sorted) - 1), atr),
                    sorted[Len(sorted)], atr)

\* the returned list, with the pivots and all clusters formed on the way
_find_swing_clusters(rates, atr, is_high) ==
    LET prices == SwingPrices(rates, is_high)
        clusters == IF prices = <<>> THEN <<>>
                    ELSE ClusterAll(SortedPrices(prices), atr)
    IN  [prices |-> prices, clusters |-> clusters,
         zones |-> SelectSeq(clusters, LAMBDA c : c.cnt >= ZONE_MIN_TOUCHES)]

(***************************************************************************)
(* Sections 4, 10, 17, 25: the inputs of one evaluation cycle. Spreads and *)
(* ATR are cents; ratios are whole numbers (atr / spread rounded down).     *)
(***************************************************************************)
SPREAD_HARD_CAP == 50
VOL_RATIO_HIGH == 135
VOL_RATIO_LOW == 85

\* mt5.symbol_info_tick(SYMBOL): None, or a tick with its two prices
TickNone == [present |-> FALSE]
Tick(bid, ask) == [present |-> TRUE, bid |-> bid, ask |-> ask]

get_symbol_spread(tick) ==
    IF ~tick.present THEN 0 ELSE Max(0, tick.ask - tick.bid)

\* <<blocked, reason>>; med is g_spread_med as update_spread_med left it
is_spread_blocked(spread, atr_m5, med) ==
    IF spread > SPREAD_HARD_CAP THEN <<TRUE, "HARD_CAP">>
    ELSE IF med > 0 /\ 10 * spread > 25 * med THEN <<TRUE, "SPIKE">>
    ELSE IF atr_m5 > 0 /\ 100 * spread > 18 * atr_m5 THEN <<TRUE, "ATR_REL">>
    ELSE <<FALSE, "">>

\* sp_blocked, sp_reason = is_spread_blocked(spread, atr_m5), kept with the
\* median it was computed against
SpreadChk(spread, atr_m5, med) ==
    [called |-> TRUE, spread |-> spread, atr_m5 |-> atr_m5, med |-> med,
     blocked |-> is_spread_blocked(spread, atr_m5, med)[1],
     reason |-> is_spread_blocked(spread, atr_m5, med)[2]]

\* <<regime, vol_mult>>, vol_mult in hundredths
get_vol_regime(atr_m5, atr_h1) ==
    IF atr_m5 <= 0 \/ atr_h1 <= 0 THEN <<"NORMAL", 100>>
    ELSE IF 100 * atr_m5 >= VOL_RATIO_HIGH * atr_h1 THEN <<"HIGH", 55>>
    ELSE IF 100 * atr_m5 < VOL_RATIO_LOW * atr_h1 THEN <<"LOW", 110>>
    ELSE <<"NORMAL", 100>>

\* bars is what the function derives from the bars alone: the volatility and
\* SMA-distance fields; atr_m5 is calc_atr(rates_m5)
calc_market_context(bars, atr_m5, spread, session_rank) ==
    [bars EXCEPT !.current_session = session_rank,
                 !.atr_m5 = atr_m5,
                 !.atr_to_spread = IF spread > 0 /\ atr_m5 > 0
                                   THEN atr_m5 \div spread ELSE 0]

\* the eleven values resolve_hybrid_ai_inputs returns, without their origin
HybridValues(r) ==
    [ctx |-> [f \in DOMAIN r.ctx |-> r.ctx[f].v],
     lc_dir |-> r.lc_dir.v, lc_conf |-> r.lc_conf.v,
     qtrend_dir |-> r.qtrend_dir.v, qtrend_str |-> r.qtrend_str.v,
     qtrend_changed |-> r.qtrend_changed.v, zone |-> r.zone.v,
     osgfc_color |-> r.osgfc_color.v, osgfc_changed |-> r.osgfc_changed.v,
     m15_fvg_targets |-> r.m15_fvg_targets.v, ai_source |-> r.source_tag]

\* dataclass LRRSignal without ai_confidence and ai_reason, the two
\* fields calc_confidence and the log text fill
LRRSignal(action, sweep_extreme, atr_m5, session_rank, vol_regime, multiplier) ==
    [action |-> action, sweep_extreme |-> sweep_extreme, atr_m5 |-> atr_m5,
     session_rank |-> session_rank, vol_regime |-> vol_regime,
     multiplier |-> multiplier]

(***************************************************************************)
(* Sections 4, 18, 21, 35: heartbeat state, risk per trade, the locals of  *)
(* main().  Risk is in hundredths of a percent, multipliers in hundredths.  *)
(***************************************************************************)
BASE_RISK_PCT == 40
MAX_RISK_PER_TRADE == 60
SPREAD_REF_DOLLAR == 30
VOL_MULT_NORMAL == 100

\* dataclass MT5HeartbeatState with its defaults
MT5HeartbeatState ==
    [last_recv_ts |-> 0, mt5_halt |-> FALSE, mt5_emg_system |-> "",
     stale_warned |-> FALSE]

HbNoMsg == [present |-> FALSE]
STALE_WARN_SEC == 15

HbWarnNone == [n |-> 0, total |-> 0, gap |-> None, received |-> 0, applied |-> 0]

\* mutant of HbStaleDue: stale_warned is not consulted
HbStaleDue_Repeats(hb, t) ==
    hb.last_recv_ts > 0 /\ t - hb.last_recv_ts > STALE_WARN_SEC

\* the condition of the stale warning at time t
HbStaleDue(hb, t) ==
    hb.last_recv_ts > 0 /\ t - hb.last_recv_ts > STALE_WARN_SEC /\ ~hb.stale_warned

\* nothing read yet in this iteration's halt check
HbUnread ==
    [last_recv_ts |-> None, mt5_halt |-> FALSE, halt_src |-> None, emg_src |-> None]

MainLocals == [reason |-> "", loaded |-> 0, risk_pct |-> 0]

\* {"S": 1.5, "A": 1.0, "B": 0.7}.get(session_rank, 1.0)
SessionMult(session_rank) ==
    CASE session_rank = "S" -> 150 [] session_rank = "B" -> 70 [] OTHER -> 100

\* spread_mult = max(0.5, min(1, 1 - spread / sp_ref * 0.25)), kept as the
\* numerator over 4 * sp_ref
calc_risk_pct(session_mult, vol_mult, spread) ==
    LET sp_ref == IF SPREAD_REF_DOLLAR > 0 THEN SPREAD_REF_DOLLAR ELSE 30
        spread_mult == Max(2 * sp_ref, Min(4 * sp_ref, 4 * sp_ref - spread))
        risk == (BASE_RISK_PCT * session_mult * vol_mult * spread_mult)
                   \div (100 * 100 * 4 * sp_ref)
    IN  Min(risk, MAX_RISK_PER_TRADE)

(***************************************************************************)
(* Section 32: AI position management                                      *)
(***************************************************************************)
PHASE_TIME_THR_SEC == 1800
PHASE_PROFIT_THR_R == 100

\* dataclass ManagementAction with its defaults; the reasons keep their
\* leading word
ManagementAction ==
    [phase |-> "NURTURE", override_close |-> FALSE, override_reason |-> "",
     partial_tp |-> FALSE, partial_reason |-> ""]

\* profit of the position in price units
MgmtProfit(entry_price, current_price, action) ==
    IF action = "BUY" THEN current_price - entry_price
    ELSE entry_price - current_price

\* profit_r >= k / 100, where profit_r = profit / sl_dist if sl_dist > 0
\* else 0.0
ProfitRAtLeast(profit, sl_dist, k) ==
    IF sl_dist > 0 THEN 100 * profit >= k * sl_dist ELSE 0 >= k

MgmtPhase_BothNeeded(elapsed_sec, profit, sl_dist) ==
    IF elapsed_sec >= PHASE_TIME_THR_SEC
       /\ ProfitRAtLeast(profit, sl_dist, PHASE_PROFIT_THR_R)
    THEN "PROTECT" ELSE "NURTURE"

MgmtPhase(elapsed_sec, profit, sl_dist) ==
    IF elapsed_sec >= PHASE_TIME_THR_SEC
       \/ ProfitRAtLeast(profit, sl_dist, PHASE_PROFIT_THR_R)
    THEN "PROTECT" ELSE "NURTURE"

MgmtReverseZone(action, zone, qtrend_dir) ==
    \/ action = "BUY" /\ zone.confirmed_resist /\ qtrend_dir = "SELL"
    \/ action = "SELL" /\ zone.confirmed_support /\ qtrend_dir = "BUY"

\* c is the record of arguments; c.tz_aware is `entry_time.tzinfo is not
\* None` and c.elapsed the seconds from entry_time to now.  With a naive
\* entry_time elapsed_sec is a timedelta (the conditional expression binds
\* weaker than .total_seconds()), and comparing it with
\* PHASE_TIME_THR_SEC raises TypeError.  osgfc_color is not used.
ai_position_management(c) ==
    LET profit == MgmtProfit(c.entry_price, c.current_price, c.action)
        mgmt == [ManagementAction EXCEPT
                     !.phase = MgmtPhase(c.elapsed, profit, c.sl_dist)]
    IN  IF ~c.tz_aware
        THEN [called |-> TRUE, raised |-> "TypeError"]
        ELSE IF c.ctx.distance_atr_ratio >= DIST_OVERRIDE_THR
                /\ c.qtrend_str = "NORMAL"
        THEN [called |-> TRUE, raised |-> "",
              mgmt |-> [mgmt EXCEPT !.override_close = TRUE,
                                    !.override_reason = "MEAN_REVERT"]]
        ELSE IF MgmtReverseZone(c.action, c.zone, c.qtrend_dir)
        THEN [called |-> TRUE, raised |-> "",
              mgmt |-> [mgmt EXCEPT !.override_close = TRUE,
                                    !.override_reason = "REVERSAL_ZONE"]]
        ELSE IF c.ctx.vol_state = "PANIC"
        THEN [called |-> TRUE, raised |-> "",
              mgmt |-> [mgmt EXCEPT !.override_close = TRUE,
                                    !.override_reason = "PANIC"]]
        ELSE IF mgmt.phase = "PROTECT" /\ ProfitRAtLeast(profit, c.sl_dist, 80)
        THEN [called |-> TRUE, raised |-> "",
              mgmt |-> [mgmt EXCEPT !.partial_tp = TRUE,
                                    !.partial_reason = "phase=PROTECT"]]
        ELSE [called |-> TRUE, raised |-> "", mgmt |-> mgmt]

\* the object a reference denotes: index 0 is None
TvDeref(log, ref) == IF ref = 0 THEN TvNone ELSE log[ref]

\* the reference the resolver reads its fields through: its local tv, taken
\* once under g_tv_cache_lock; current is what g_tv_cache refers to now
SnapshotRef_Reread(tv, current) == current

SnapshotRef(tv, current) == tv

WhThreads == {1, 2}
WhIdle == [pc |-> "idle", ref |-> 0]
RsIdle == [pc |-> "idle", tv |-> 0, t |-> 0, ctx |-> None, zone |-> None]

(***************************************************************************)
(* Section 17: news filter.  Times are minutes on the JST clock.           *)
(***************************************************************************)
\* the list as shipped: empty, which disables the filter
NEWS_SCHEDULE == <<>>
NEWS_BLOCK_BEFORE_MIN == 30
NEWS_BLOCK_AFTER_MIN == 10

\* is_news_blocked(now_jst) with the schedule and g_news_block_until it
\* finds: the answer and the g_news_block_until it leaves
is_news_blocked(schedule, block_until, now_jst) ==
    LET active == IF block_until # None /\ now_jst > block_until
                  THEN None ELSE block_until
        hits == {i \in 1..Len(schedule) :
                    /\ schedule[i].jst - NEWS_BLOCK_BEFORE_MIN <= now_jst
                    /\ now_jst <= schedule[i].jst + NEWS_BLOCK_AFTER_MIN}
        first == CHOOSE i \in hits : \A j \in hits : i <= j
    IN  IF active # None THEN [blocked |-> TRUE, block_until |-> active]
        ELSE IF hits # {}
        THEN [blocked |-> TRUE,
              block_until |-> schedule[first].jst + NEWS_BLOCK_AFTER_MIN]
        ELSE [blocked |-> FALSE, block_until |-> None]

(***************************************************************************)
(* Gate Keeper calls: inputs the detectors and the resolver can deliver    *)
(***************************************************************************)
Directions == {"BUY", "SELL"}
VolStates == {"SQUEEZE", "NORMAL", "PANIC"}
VolRatioOf(vs) == CASE vs = "SQUEEZE" -> 80 [] vs = "PANIC" -> 200 [] OTHER -> 100

GateAtsValues == {0, 9, 10, 15}
GateDistValues == {3, 4, 5}
GateLcValues == {<<"NEUTRAL", 0>>, <<"BUY", 60>>, <<"BUY", 80>>}
GateQtValues == {<<"NEUTRAL", "NORMAL", FALSE>>, <<"BUY", "STRONG", TRUE>>,
                 <<"BUY", "NORMAL", FALSE>>}
GateZoneValues ==
    {[ZoneResult EXCEPT !.confirmed_support = z[1], !.confirmed_resist = z[2],
                        !.touching_zone = z[3], !.zone_type = z[4],
                        !.zone_price = IF z[4] = "" THEN 0 ELSE 1]
       : z \in {<<FALSE, FALSE, FALSE, "">>, <<TRUE, FALSE, TRUE, "SUPPORT">>,
                <<FALSE, TRUE, TRUE, "RESIST">>, <<TRUE, TRUE, FALSE, "SUPPORT">>}}
GateOsgfcValues == {<<"NEUTRAL", FALSE>>, <<"GREEN", TRUE>>, <<"GREEN", FALSE>>}
GateFvgTargets == {<<>>, <<1>>}
SessionRanks == {"S", "A", "B", "INVALID"}
GateMtfValues == {0, 70, 100}

GateCtxValues ==
    {[MarketContext EXCEPT !.atr_to_spread = a, !.distance_atr_ratio = d,
                           !.vol_state = v, !.volatility_ratio = VolRatioOf(v)]
       : a \in GateAtsValues, d \in GateDistValues, v \in VolStates}

\* the module's globals as the program leaves them at start-up; no call made
Init ==
    /\ spread_chk = NoCall
    /\ gate_call = NoCall /\ gate_res = NoCall
    /\ sweep_call = NoCall /\ sweep_res = NoCall
    /\ g_spread_med = SPREAD_MED_INIT
    /\ spread_feed = [x |-> 0, n |-> 0, prev |-> SPREAD_MED_INIT,
                      start |-> SPREAD_MED_INIT]
    /\ lc_call = NoCall /\ lc_res = NoCall
    /\ today = 1
    /\ equity = 100
    /\ g_daily = DailyState
    /\ daily_last = [op |-> "", halt_before |-> FALSE, date_before |-> 0,
                     halted |-> FALSE]
    /\ now = 0
    /\ g_tv_cache = TvNone
    /\ webhook_res = NoCall
    /\ hybrid_res = NoCall
    /\ feed = [len |-> 0, time |-> 0]
    /\ g_last_bar_time = 0
    /\ bars_passed = <<>>
    /\ poll_last = NoCall
    /\ jst_clock = 0
    /\ session_last = NoCall
    /\ swing_call = NoCall /\ swing_res = NoCall
    /\ main_pc = "init" /\ main_m = MainLocals /\ hb_seen = HbUnread
    /\ g_hb = MT5HeartbeatState /\ hb_src = [mt5_halt |-> 0, mt5_emg_system |-> 0]
    /\ hb_pc = "recv" /\ hb_msg = HbNoMsg
    /\ orders = <<>> /\ entries = 0
    /\ hb_now = 1 /\ hb_warn = HbWarnNone
    /\ mgmt_call = NoCall
    /\ mgmt_res = NoCall
    /\ mgmt_prev_str = None
    /\ tv_log = <<>>
    /\ tv_pub = 0
    /\ wh_req = [i \in WhThreads |-> WhIdle]
    /\ rs = RsIdle
    /\ news_cfg = NEWS_SCHEDULE
    /\ news_clock = 0
    /\ g_news_block_until = None
    /\ prev_news_blocked = FALSE
    /\ news_sent = NoCall
    /\ news_last = NoCall

\* one call of ai_gate_keeper with any combination of inputs
GateCall ==
    /\ ~gate_call.called
    /\ \E action \in Directions, ctx \in GateCtxValues, lc \in GateLcValues,
          qt \in GateQtValues, zone \in GateZoneValues,
          os \in GateOsgfcValues, fvg_m5_found \in BOOLEAN,
          m15_fvg_targets \in GateFvgTargets, session_rank \in SessionRanks,
          mtf_mult \in GateMtfValues :
          /\ gate_call' = [called |-> TRUE, action |-> action,
                           session_rank |-> session_rank, mtf_mult |-> mtf_mult]
          /\ gate_res' = ai_gate_keeper(action, ctx, lc[1], lc[2], qt[1], qt[2],
                                        qt[3], zone, os[1], os[2], fvg_m5_found,
                                        m15_fvg_targets, session_rank, mtf_mult)
    /\ UNCHANGED <<sweepVars, spreadVars, lcVars, dailyVars, hybridVars, barVars, sessionVars, swingVars, mainVars, hbClockVars, mgmtVars, snapVars, newsVars>>

GateNext == GateCall
SpecGate == Init /\ [][GateNext]_vars

(***************************************************************************)
(* detect_sweep calls: pools from find_liquidity_pools, bars from MT5      *)
(***************************************************************************)
\* (swing_high, swing_low) pairs
SweepPools == {<<200, 100>>, <<104, 100>>}

\* prices around both pools: the overshoot bounds, the pool itself, bodies
SweepPrices(sh, sl) ==
    {sl - 51, sl - 50, sl - 12, sl - 3, sl - 2, sl, sl + 1, sl + 3}
        \cup {sh - 3, sh - 1, sh, sh + 2, sh + 3, sh + 12, sh + 50, sh + 51}

\* OHLC bars: the high is the highest and the low the lowest price of the bar
SweepBars(sh, sl) ==
    {b \in [open : SweepPrices(sh, sl), high : SweepPrices(sh, sl),
            low : SweepPrices(sh, sl), close : SweepPrices(sh, sl)] :
        /\ b.high >= Max(b.open, b.close)
        /\ b.low <= Min(b.open, b.close)}

\* one call of detect_sweep on any bar
SweepCall ==
    /\ ~sweep_call.called
    /\ \E p \in SweepPools : \E bar \in SweepBars(p[1], p[2]) :
          /\ sweep_call' = [called |-> TRUE, bar |-> bar,
                            swing_high |-> p[1], swing_low |-> p[2]]
          /\ sweep_res' = detect_sweep(bar, p[1], p[2], 10)
    /\ UNCHANGED <<gateVars, spreadVars, lcVars, dailyVars, hybridVars, barVars, sessionVars, swingVars, mainVars, hbClockVars, mgmtVars, snapVars, newsVars>>

SweepNext == SweepCall
SpecSweep == Init /\ [][SweepNext]_vars

(***************************************************************************)
(* Spread observations fed to update_spread_med                            *)
(***************************************************************************)
MaxSpread == 24
MaxFeed == 10

\* calc_atr(rates_m5) where the spread gate is reached: positive
SpreadAtrs == {100, 300}

\* one update with the observed spread x (get_symbol_spread is never negative)
\* and the spread gate that follows it in the cycle
SpreadObserve ==
    \E x \in 0..MaxSpread, atr_m5 \in SpreadAtrs :
        /\ spread_feed.n = 0 \/ x # spread_feed.x \/ spread_feed.n < MaxFeed
        /\ update_spread_med(x)
        /\ spread_chk' = SpreadChk(x, atr_m5, g_spread_med')
        /\ spread_feed' =
               IF spread_feed.n > 0 /\ x = spread_feed.x
               THEN [spread_feed EXCEPT !.n = @ + 1, !.prev = g_spread_med]
               ELSE [x |-> x, n |-> 1, prev |-> g_spread_med,
                     start |-> g_spread_med]
        /\ UNCHANGED <<gateVars, sweepVars, lcVars, dailyVars, hybridVars, barVars, sessionVars, swingVars, mainVars, hbClockVars, mgmtVars, snapVars, newsVars>>

SpreadNext == SpreadObserve
SpecSpread == Init /\ [][SpreadNext]_vars

(***************************************************************************)
(* Bars handed to lorentzian_classify: n bars whose closes and features    *)
(* repeat a pattern every LcPeriod sampling strides                        *)
(***************************************************************************)
LP_LOOKBACK == 24
MaxLcBars == 64
LcPeriod == 3
LcFetchCount == LC_MAX_BARS_BK + 30

\* try_generate_lrr_signal asks for LcFetchCount bars and gives up below
\* LP_LOOKBACK + 2
LcLens == ((LP_LOOKBACK + 2)..MaxLcBars) \cup {LcFetchCount - 1, LcFetchCount}

LcRates(n, cpat, fpat) ==
    [n |-> n,
     close |-> [i \in 0..(n - 1) |-> cpat[((i \div LC_MIN_BARS_BK) % LcPeriod) + 1]],
     feat  |-> [i \in 0..(n - 1) |-> fpat[((i \div LC_MIN_BARS_BK) % LcPeriod) + 1]]]

LcCall ==
    /\ ~lc_call.called
    /\ \E n \in LcLens, cpat \in [1..LcPeriod -> 1..3], fpat \in [1..LcPeriod -> 0..1] :
          /\ lc_call' = [called |-> TRUE, n |-> n, cpat |-> cpat, fpat |-> fpat]
          /\ lc_res' = [called |-> TRUE, r |-> lorentzian_classify(LcRates(n, cpat, fpat))]
    /\ UNCHANGED <<gateVars, sweepVars, spreadVars, dailyVars, hybridVars, barVars, sessionVars, swingVars, mainVars, hbClockVars, mgmtVars, snapVars, newsVars>>

LcNext == LcCall
SpecLC == Init /\ [][LcNext]_vars

(***************************************************************************)
(* Daily management under any interleaving of its operations, the          *)
(* heartbeat's entry_count overwrite, the calendar and the account equity  *)
(***************************************************************************)
MaxDay == 3
MaxCount == 4
MaxRisk == 3
Equities == {0, 98, 100}
otherVarsDaily == <<gateVars, sweepVars, spreadVars, lcVars, hybridVars, barVars, sessionVars, swingVars, mainVars, hbClockVars, mgmtVars, snapVars, newsVars>>

DailyCheckReset ==
    /\ check_daily_reset
    /\ UNCHANGED <<today, equity, otherVarsDaily>>

DailyIsHalted ==
    /\ is_daily_halted
    /\ UNCHANGED <<today, equity, otherVarsDaily>>

DailyEntrySent ==
    /\ g_daily.entry_count < MaxCount
    /\ \E risk_pct \in 1..2 :
          /\ g_daily.daily_risk_used + risk_pct <= MaxRisk
          /\ on_entry_sent(risk_pct)
    /\ UNCHANGED <<today, equity, otherVarsDaily>>

DailyTradeClosed ==
    /\ \E profit \in {-1, 0, 1} :
          /\ profit < 0 => g_daily.consec_losses < MaxCount
          /\ on_trade_closed(profit)
    /\ UNCHANGED <<today, equity, otherVarsDaily>>

DailyHeartbeat ==
    /\ \E mt5_entries \in -1..MaxCount : HbEntrySync(mt5_entries)
    /\ UNCHANGED <<today, equity, otherVarsDaily>>

\* midnight JST passes
DayRollover ==
    /\ today < MaxDay
    /\ today' = today + 1
    /\ daily_last' = DailyLast("midnight", FALSE)
    /\ UNCHANGED <<equity, g_daily, otherVarsDaily>>

\* the account equity moves (0 is account_info() failing)
EquityChange ==
    /\ \E eq \in Equities \ {equity} : equity' = eq
    /\ daily_last' = DailyLast("equity", FALSE)
    /\ UNCHANGED <<today, g_daily, otherVarsDaily>>

DailyNext ==
    \/ DailyCheckReset
    \/ DailyIsHalted
    \/ DailyEntrySent
    \/ DailyTradeClosed
    \/ DailyHeartbeat
    \/ DayRollover
    \/ EquityChange

SpecDaily == Init /\ [][DailyNext]_vars

(***************************************************************************)
(* Webhook alerts arriving while the main thread resolves its inputs       *)
(***************************************************************************)
MaxNow == 62
otherVarsHybrid == <<gateVars, sweepVars, spreadVars, lcVars, dailyVars, barVars, sessionVars, swingVars, mainVars, hbClockVars, mgmtVars, snapVars, newsVars>>

\* alert objects: complete ones (one with text where lc_conf should be a
\* number), one carrying a single field, and the empty object
TvAlerts ==
    [lc_direction : {"buy"}, lc_conf : {"0.82", "abc"},
     qtrend_dir : {"sell"}, zone_confirmed_support : {TRUE},
     distance_atr_ratio : {3}, direction_vs_sma : {"above"},
     atr_to_spread : {0, 12}, m15_fvg_targets : {<<5, 6, 7, 8>>}]
       \cup {[atr_to_spread |-> 12], EmptyFields}

\* request bodies: text that is not JSON, a JSON array, a JSON object
WebhookBodies ==
    {[kind |-> "invalid"], JsonArray} \cup {JsonObject(d) : d \in TvAlerts}

HybridLocals ==
    {[ctx |-> [MarketContext EXCEPT !.atr_to_spread = 15, !.atr_m5 = 30,
                                    !.atr_m15_raw = 50, !.distance_atr_ratio = 4],
      lc_dir |-> "SELL", lc_conf |-> 60, qtrend_dir |-> "BUY",
      qtrend_str |-> "STRONG", qtrend_changed |-> TRUE,
      zone |-> [ZoneResult EXCEPT !.confirmed_resist = TRUE],
      osgfc_color |-> "GREEN", osgfc_changed |-> FALSE,
      m15_fvg_targets |-> <<9>>]}

\* a request reaches POST /webhook
Webhook ==
    /\ \E body \in WebhookBodies :
          LET r == webhook(body, g_tv_cache, now)
          IN  /\ g_tv_cache' = r.cache
              /\ webhook_res' = [called |-> TRUE, body |-> body, status |-> r.status,
                                 ok |-> r.ok, before |-> g_tv_cache]
    /\ UNCHANGED <<now, hybrid_res, otherVarsHybrid>>

HybridTick ==
    /\ \E d \in {30, 31} :
          /\ now + d <= MaxNow
          /\ now' = now + d
    /\ UNCHANGED <<g_tv_cache, webhook_res, hybrid_res, otherVarsHybrid>>

HybridResolve ==
    /\ \E local \in HybridLocals, spread \in {0, 2}, session_rank \in {"S", "B"} :
          hybrid_res' =
             [called |-> TRUE, tv |-> g_tv_cache, t |-> now, spread |-> spread,
              r |-> resolve_hybrid_ai_inputs(g_tv_cache, now, local,
                                             local.ctx.atr_m5, spread, session_rank)]
    /\ UNCHANGED <<now, g_tv_cache, webhook_res, otherVarsHybrid>>

HybridNext ==
    \/ Webhook
    \/ HybridTick
    \/ HybridResolve

SpecHybrid == Init /\ [][HybridNext]_vars

(***************************************************************************)
(* Section 33: try_generate_lrr_signal polled against a moving M5 feed.    *)
(* Bar times are bar numbers (the order of the int timestamps and of the   *)
(* datetimes made from them is the same).                                  *)
(***************************************************************************)
MaxBarTs == 4
otherVarsBars == <<gateVars, sweepVars, lcVars, dailyVars, hybridVars, sessionVars, swingVars, mainVars, hbClockVars, mgmtVars, snapVars, newsVars>>

\* bar counts copy_rates_from_pos can deliver: none, one short, just enough,
\* everything asked for
FeedLens == {0, LP_LOOKBACK + 1, LP_LOOKBACK + 2, LcFetchCount}

\* mutant of BarAlreadySeen: only strictly older bars are rejected
BarAlreadySeen_StrictlyOlder(bar_ts) ==
    g_last_bar_time # 0 /\ bar_ts < g_last_bar_time

\* g_last_bar_time is not None and bar_ts <= g_last_bar_time
BarAlreadySeen(bar_ts) ==
    g_last_bar_time # 0 /\ bar_ts <= g_last_bar_time

PollLast(bar_ts, outcome) ==
    [called |-> TRUE, len |-> feed.len, bar_ts |-> bar_ts,
     last_before |-> g_last_bar_time, outcome |-> outcome]

\* the terminal's history moves: a new bar closes, or a reconnect serves
\* shorter or older history
FeedChange ==
    /\ \E len \in FeedLens, time \in 1..MaxBarTs :
          /\ [len |-> len, time |-> time] # feed
          /\ feed' = [len |-> len, time |-> time]
    /\ UNCHANGED <<g_last_bar_time, bars_passed, poll_last, spreadVars, otherVarsBars>>

\* the tick symbol_info_tick returns: none, or bid and ask 20 apart
CycleTicks == {TickNone, Tick(900, 920)}

\* get_session_rank(get_jst_now()) at the time of the cycle
CycleSessions == {"S", "INVALID"}

\* calc_atr(rates_m5): 0 when it cannot be computed
CycleAtrs == {0, 100, 300}

\* the closed bar against pools (200, 100): inside, above and back, below and
\* back
CyclePool == <<200, 100>>
CycleBars ==
    {[open |-> 150, high |-> 160, low |-> 140, close |-> 150],
     [open |-> 190, high |-> 210, low |-> 185, close |-> 195],
     [open |-> 110, high |-> 115, low |-> 90, close |-> 105]}

\* check_mtf_alignment: <<is_aligned, adjustment_mult>>
CycleMtf == {<<FALSE, 0>>, <<TRUE, 100>>, <<TRUE, 70>>}

\* what calc_market_context reads off the bars: calm, or a volatility panic
CycleContexts ==
    {MarketContext,
     [MarketContext EXCEPT !.vol_state = "PANIC", !.volatility_ratio = 200]}

\* what the local detectors compute from the bars: bullish, bearish, nothing
CycleLocals ==
    {[ctx |-> MarketContext, lc_dir |-> d[1], lc_conf |-> d[2],
      qtrend_dir |-> d[1], qtrend_str |-> d[3], qtrend_changed |-> FALSE,
      zone |-> [ZoneResult EXCEPT !.confirmed_support = (d[1] = "BUY"),
                                  !.confirmed_resist = (d[1] = "SELL")],
      osgfc_color |-> d[4], osgfc_changed |-> FALSE, m15_fvg_targets |-> <<>>]
       : d \in {<<"BUY", 80, "STRONG", "GREEN">>, <<"SELL", 80, "STRONG", "RED">>,
                <<"NEUTRAL", 0, "NORMAL", "NEUTRAL">>}}

NoSignal == [present |-> FALSE]

\* one filter of the cycle as it was evaluated: did it let the setup
\* through, and the value it saw
Gate(name, ok, detail) == [gate |-> name, ok |-> ok, detail |-> detail]

\* a cycle that got past the dead zone; gates lists the filters it
\* evaluated, in order
PollCycle(bar_ts, outcome, tick, gates, signal) ==
    [called |-> TRUE, len |-> feed.len, bar_ts |-> bar_ts,
     last_before |-> g_last_bar_time, outcome |-> outcome,
     tick |-> tick, gates |-> gates, signal |-> signal]

\* if gate.verdict in ("SKIP", "HARD_REJECT"): return None
VerdictBlocks_SkipOnly(verdict) == verdict = "SKIP"

VerdictBlocks(verdict) == verdict \in {"SKIP", "HARD_REJECT"}

\* from the gate inputs to the return value: resolve, gate, LRRSignal
CycleGate(bar_ts, tick, gates, spread, atr_m5, sweep, fvg_m5_found, mtf_mult, session_rank, local) ==
    LET in == HybridValues(resolve_hybrid_ai_inputs(g_tv_cache, now, local, atr_m5,
                                                    spread, session_rank))
        gate == ai_gate_keeper(sweep.action, in.ctx, in.lc_dir, in.lc_conf,
                               in.qtrend_dir, in.qtrend_str, in.qtrend_changed,
                               in.zone, in.osgfc_color, in.osgfc_changed,
                               fvg_m5_found, in.m15_fvg_targets, session_rank,
                               mtf_mult)
        vol == get_vol_regime(atr_m5, 0)
    IN  IF VerdictBlocks(gate.verdict)
        THEN PollCycle(bar_ts, "gate_rejected", tick,
                       Append(gates, Gate("ai_gate", FALSE, gate.verdict)),
                       NoSignal)
        ELSE PollCycle(bar_ts, "signal", tick,
                       Append(gates, Gate("ai_gate", gate.verdict = "ENTER",
                                          gate.verdict)),
                       [present |-> TRUE,
                        sig |-> LRRSignal(sweep.action, sweep.sweep_extreme, atr_m5,
                                          session_rank, vol[1], gate.multiplier)])

\* the MT5 data one cycle may meet, as sets of values
CycleInputs ==
    [sessions |-> CycleSessions, news |-> BOOLEAN, ticks |-> CycleTicks,
     atrs |-> CycleAtrs,
     bars |-> CycleBars, vol_passed |-> BOOLEAN, fvg_m5_found |-> BOOLEAN,
     mtf |-> CycleMtf, locals |-> CycleLocals, contexts |-> CycleContexts]

\* from the ATR check to the MTF check; the rest is CycleGate.  g0 holds
\* the session and news filters already passed.
CycleFilters(I, bar_ts, tick, spread, session_rank, g0) ==
    \E atr_m5 \in I.atrs :
     /\ UNCHANGED spread_chk
     /\ IF atr_m5 <= 0
        THEN poll_last' = PollCycle(bar_ts, "atr_unavailable", tick,
                                    Append(g0, Gate("atr", FALSE, "")), NoSignal)
        ELSE LET sp == is_spread_blocked(spread, atr_m5, g_spread_med')
                 g1 == g0 \o <<Gate("atr", TRUE, ""),
                               Gate("spread", ~sp[1], sp[2])>>
        IN IF sp[1]
        THEN poll_last' = PollCycle(bar_ts, "spread_blocked", tick, g1, NoSignal)
        ELSE \E bar \in I.bars :
          LET sweep == detect_sweep(bar, CyclePool[1], CyclePool[2], atr_m5)
              g2 == Append(g1, Gate("sweep", sweep.action # "NONE", sweep.action))
          IN  IF sweep.action = "NONE"
              THEN poll_last' = PollCycle(bar_ts, "no_sweep", tick, g2, NoSignal)
              ELSE \E vol_passed \in I.vol_passed :
                 LET g3 == Append(g2, Gate("volume", vol_passed, ""))
                 IN
                 IF ~vol_passed
                 THEN poll_last' = PollCycle(bar_ts, "volume", tick, g3, NoSignal)
                 ELSE \E fvg_m5_found \in I.fvg_m5_found, mtf \in I.mtf :
                    LET g4 == Append(g3, Gate("mtf", mtf[1],
                                              IF mtf[1] THEN "" ELSE "mtf_parabolic"))
                    IN
                    IF ~mtf[1]
                    THEN poll_last' = PollCycle(bar_ts, "mtf_blocked", tick, g4,
                                                NoSignal)
                    ELSE \E local \in I.locals, bars \in I.contexts :
                       poll_last' =
                          CycleGate(bar_ts, tick, g4, spread, atr_m5, sweep,
                                    fvg_m5_found, mtf[2], session_rank,
                                    [local EXCEPT !.ctx =
                                        calc_market_context(bars, atr_m5, spread,
                                                            session_rank)])

\* one evaluation cycle on data from I.  I.news is what is_news_blocked
\* answers: never blocked with the NEWS_SCHEDULE as shipped (empty), either
\* answer once the schedule is filled in.
LrrCycle(I) ==
    IF feed.len = 0 \/ feed.len < LP_LOOKBACK + 2
    THEN /\ poll_last' = PollLast(0, "insufficient_data")
         /\ UNCHANGED <<feed, g_last_bar_time, bars_passed, spreadVars>>
    ELSE IF BarAlreadySeen(feed.time)
    THEN /\ poll_last' = PollLast(feed.time, "old_bar")
         /\ UNCHANGED <<feed, g_last_bar_time, bars_passed, spreadVars>>
    ELSE /\ g_last_bar_time' = feed.time
         /\ bars_passed' = Append(bars_passed, feed.time)
         /\ UNCHANGED feed
         /\ \E session_rank \in I.sessions, news_blocked \in I.news :
               IF session_rank = "INVALID"
               THEN /\ poll_last' = PollLast(feed.time, "dead_zone")
                    /\ UNCHANGED spreadVars
               ELSE IF news_blocked
               THEN /\ poll_last' =
                          [called |-> TRUE, len |-> feed.len,
                           bar_ts |-> feed.time, last_before |-> g_last_bar_time,
                           outcome |-> "news_blocked",
                           gates |-> <<Gate("session", TRUE, ""),
                                       Gate("news", FALSE, "")>>]
                    /\ UNCHANGED spreadVars
               ELSE \E tick \in I.ticks :
                       LET spread == get_symbol_spread(tick)
                       IN  /\ update_spread_med(spread)
                           /\ spread_feed' = [x |-> spread, n |-> 1,
                                              prev |-> g_spread_med,
                                              start |-> g_spread_med]
                           /\ CycleFilters(I, feed.time, tick, spread, session_rank,
                                           <<Gate("session", TRUE, ""),
                                             Gate("news", TRUE, "")>>)

try_generate_lrr_signal == LrrCycle(CycleInputs)

Poll ==
    /\ try_generate_lrr_signal
    /\ UNCHANGED otherVarsBars

BarsNext ==
    \/ FeedChange
    \/ Poll

SpecBars == Init /\ [][BarsNext]_vars

(***************************************************************************)
(* get_session_rank called as the JST clock runs through the day           *)
(***************************************************************************)
MinutesPerDay == 24 * 60
otherVarsSession == <<gateVars, sweepVars, spreadVars, lcVars, dailyVars, hybridVars, barVars, swingVars, mainVars, hbClockVars, mgmtVars, snapVars, newsVars>>

\* get_session_rank(get_jst_now()): since the previous call the clock has
\* moved on by a minute or by an hour, past midnight included
SessionCall ==
    /\ \E d \in {1, 60} : jst_clock' = (jst_clock + d) % MinutesPerDay
    /\ LET h == jst_clock' \div 60
           m == jst_clock' % 60
           r == get_session_rank(h, m)
       IN  session_last' =
              [called |-> TRUE, time_min |-> jst_clock', rank |-> r[1], mult |-> r[2],
               prev |-> IF session_last.called
                        THEN [called |-> TRUE, time_min |-> session_last.time_min,
                              rank |-> session_last.rank]
                        ELSE NoCall]
    /\ UNCHANGED otherVarsSession

SessionNext == SessionCall

SpecSession == Init /\ [][SessionNext]_vars

(***************************************************************************)
(* _find_swing_clusters on the ZoneBars M15 bars detect_zones asks for at   *)
(* least, with up to MaxZonePeaks peaks (or troughs) far enough apart to   *)
(* be separate swings; prices and ATR in cents                             *)
(***************************************************************************)
MaxZonePeaks == 3
ZoneBars == 30
otherVarsSwing == <<gateVars, sweepVars, spreadVars, lcVars, dailyVars, hybridVars, barVars, sessionVars, mainVars, hbClockVars, mgmtVars, snapVars, newsVars>>
ZoneBase == 900
ZonePeaks == {ZoneBase, 1000, 1030, 1040, 1050}

\* peak k (1, 2, ...) sits at bar sw + (k - 1) * (sw + 1) unless its height
\* is ZoneBase; the other bars rise by slope per bar; a trough mirrors a peak
ZoneRates(heights, slope) ==
    LET gap == ZONE_SWING_PERIOD + 1
        k(i) == (i - ZONE_SWING_PERIOD) \div gap + 1
        h(i) == IF /\ i >= ZONE_SWING_PERIOD
                   /\ (i - ZONE_SWING_PERIOD) % gap = 0
                   /\ k(i) <= Len(heights)
                   /\ heights[k(i)] # ZoneBase
                THEN heights[k(i)]
                ELSE ZoneBase + slope * i
    IN  [n |-> ZoneBars,
         high |-> [i \in 0..(ZoneBars - 1) |-> h(i)],
         low  |-> [i \in 0..(ZoneBars - 1) |-> 2 * ZoneBase - h(i) - 50]]

SwingCall ==
    /\ ~swing_call.called
    /\ \E heights \in [1..MaxZonePeaks -> ZonePeaks], slope \in {0, 1}, atr \in {0, 100}, is_high \in BOOLEAN :
          /\ swing_call' = [called |-> TRUE, heights |-> heights, slope |-> slope,
                            atr |-> atr, is_high |-> is_high]
          /\ swing_res' = [called |-> TRUE,
                           r |-> _find_swing_clusters(ZoneRates(heights, slope), atr, is_high)]
    /\ UNCHANGED otherVarsSwing

SwingNext == SwingCall
SpecSwing == Init /\ [][SwingNext]_vars

(***************************************************************************)
(* main() and heartbeat_receiver_thread as two threads over g_daily and     *)
(* g_hb, within one JST day.  A step is one read or write of shared state;  *)
(* try_generate_lrr_signal touches only what main() owns and is one step.   *)
(***************************************************************************)
MaxHb == 1
otherVarsMain == <<gateVars, sweepVars, lcVars, hybridVars, sessionVars, swingVars, mgmtVars, snapVars, newsVars>>
hbThread == <<g_hb, hb_src, hb_pc, hb_msg>>

\* the MT5 data main() meets: always a tick, the S session, a usable ATR,
\* bullish detectors; the closed bar sweeps the swing low or stays inside
MainInputs ==
    [CycleInputs EXCEPT !.sessions = {"S"}, !.news = {FALSE},
                        !.ticks = {Tick(900, 920)},
                        !.atrs = {300},
                        !.bars = {b \in CycleBars : b.high <= CyclePool[1]},
                        !.vol_passed = {TRUE}, !.fvg_m5_found = {TRUE},
                        !.mtf = {<<TRUE, 100>>},
                        !.locals = {l \in CycleLocals : l.lc_dir = "BUY"},
                        !.contexts = {MarketContext}]

\* heartbeat messages: all quiet with MT5 counting no entry today, and MT5
\* halted by its emergency system with no daily_entries field
HbMessages ==
    {[present |-> TRUE, kind |-> "object", halt |-> FALSE, emg_system |-> "",
      daily_entries |-> 0],
     [present |-> TRUE, kind |-> "object", halt |-> TRUE, emg_system |-> "DD",
      daily_entries |-> None]}

\* a new M5 bar closes
BarCloses ==
    /\ feed.time < MaxBarTs
    /\ feed' = [len |-> LcFetchCount, time |-> feed.time + 1]
    /\ UNCHANGED <<g_last_bar_time, bars_passed, poll_last, spreadVars, dailyVars,
                   mainVars, otherVarsMain,
                   hbClockVars>>

\* check_daily_reset before the loop
MainInit ==
    /\ main_pc = "init"
    /\ check_daily_reset
    /\ main_pc' = "reset"
    /\ UNCHANGED <<today, equity, main_m, hb_seen, hbThread, orders, entries,
                   spreadVars, barVars, otherVarsMain,
                   hbClockVars>>

\* top of the loop: check_daily_reset
MainCheckReset ==
    /\ main_pc = "reset"
    /\ check_daily_reset
    /\ main_pc' = "halt"
    /\ main_m' = MainLocals
    /\ hb_seen' = HbUnread
    /\ UNCHANGED <<today, equity, hbThread, orders, entries,
                   spreadVars, barVars, otherVarsMain,
                   hbClockVars>>

\* halted, halt_reason = is_daily_halted(); if halted: sleep, continue
MainHaltCheck ==
    /\ main_pc = "halt"
    /\ is_daily_halted
    /\ IF DailyHaltCheck(g_daily, equity).halted
       THEN /\ main_pc' = "sleep"
            /\ main_m' = [main_m EXCEPT !.reason = "daily_halt"]
       ELSE /\ main_pc' = "hb_ts"
            /\ UNCHANGED main_m
    /\ UNCHANGED <<today, equity, hb_seen, hbThread, orders, entries,
                   spreadVars, barVars, otherVarsMain,
                   hbClockVars>>

\* if g_hb.last_recv_ts > 0 ...
MainReadTs ==
    /\ main_pc = "hb_ts"
    /\ hb_seen' = [hb_seen EXCEPT !.last_recv_ts = g_hb.last_recv_ts]
    /\ main_pc' = IF g_hb.last_recv_ts > 0 THEN "hb_halt" ELSE "generate"
    /\ UNCHANGED <<main_m, hbThread, orders, entries,
                   dailyVars, spreadVars, barVars, otherVarsMain,
                   hbClockVars>>

\* mutant of AfterHaltFlag: the counterpart's halt flag is not acted on
AfterHaltFlag_Ignored(mt5_halt) == "generate"

\* with a heartbeat received: halted goes to the log line and the sleep
AfterHaltFlag(mt5_halt) == IF mt5_halt THEN "hb_emg" ELSE "generate"

\* ... and g_hb.mt5_halt:
MainReadHalt ==
    /\ main_pc = "hb_halt"
    /\ hb_seen' = [hb_seen EXCEPT !.mt5_halt = g_hb.mt5_halt,
                                  !.halt_src = hb_src.mt5_halt]
    /\ main_pc' = AfterHaltFlag(g_hb.mt5_halt)
    /\ UNCHANGED <<main_m, hbThread, orders, entries,
                   dailyVars, spreadVars, barVars, otherVarsMain,
                   hbClockVars>>

\* log.info(..., g_hb.mt5_emg_system); sleep; continue
MainReadEmg ==
    /\ main_pc = "hb_emg"
    /\ hb_seen' = [hb_seen EXCEPT !.emg_src = hb_src.mt5_emg_system]
    /\ main_pc' = "sleep"
    /\ main_m' = [main_m EXCEPT !.reason = "mt5_halt"]
    /\ UNCHANGED <<hbThread, orders, entries,
                   dailyVars, spreadVars, barVars, otherVarsMain,
                   hbClockVars>>

\* the news sync (nothing to send: is_news_blocked stays False) and
\* signal = try_generate_lrr_signal()
MainGenerate ==
    /\ main_pc = "generate"
    /\ LrrCycle(MainInputs)
    /\ IF poll_last'.outcome = "signal"
       THEN /\ main_pc' = "send"
            /\ UNCHANGED main_m
       ELSE /\ main_pc' = "sleep"
            /\ main_m' = [main_m EXCEPT !.reason = "no_signal"]
    /\ UNCHANGED <<hb_seen, hbThread, orders, entries, dailyVars, otherVarsMain,
                   hbClockVars>>

\* mutant of AfterSend: the counters are updated whatever send_signal returned
AfterSend_CountsFailures(ok) == "entry_load"

\* if ok: on_entry_sent(...); otherwise on to the sleep
AfterSend(ok) == IF ok THEN "entry_load" ELSE "sleep"

\* ok = send_signal(signal): _zmq_send fails when the socket is missing or
\* raises ZMQError
MainSend ==
    /\ main_pc = "send"
    /\ \E ok \in BOOLEAN :
          /\ orders' = Append(orders, [bar_ts |-> poll_last.bar_ts, ok |-> ok])
          /\ main_pc' = AfterSend(ok)
          /\ main_m' = IF ok THEN main_m
                       ELSE [main_m EXCEPT !.reason = "send_failed"]
    /\ UNCHANGED <<hb_seen, hbThread, entries,
                   dailyVars, spreadVars, barVars, otherVarsMain,
                   hbClockVars>>

\* on_entry_sent(calc_risk_pct(..., get_symbol_spread())): the argument, then
\* the load of g_daily.entry_count += 1
MainEntryLoad ==
    /\ main_pc = "entry_load"
    /\ \E tick \in MainInputs.ticks :
          main_m' = [main_m EXCEPT
                        !.loaded = g_daily.entry_count,
                        !.risk_pct = calc_risk_pct(
                                        SessionMult(poll_last.signal.sig.session_rank),
                                        VOL_MULT_NORMAL, get_symbol_spread(tick))]
    /\ main_pc' = "entry_store"
    /\ UNCHANGED <<hb_seen, hbThread, orders, entries,
                   dailyVars, spreadVars, barVars, otherVarsMain,
                   hbClockVars>>

\* the store of g_daily.entry_count += 1, and daily_risk_used += risk_pct
MainEntryStore ==
    /\ main_pc = "entry_store"
    /\ g_daily' = [g_daily EXCEPT !.entry_count = main_m.loaded + 1,
                                  !.daily_risk_used = @ + main_m.risk_pct]
    /\ daily_last' = DailyLast("on_entry_sent", FALSE)
    /\ entries' = entries + 1
    /\ main_pc' = "sleep"
    /\ main_m' = [MainLocals EXCEPT !.reason = "sent"]
    /\ UNCHANGED <<today, equity, hb_seen, hbThread, orders,
                   spreadVars, barVars, otherVarsMain,
                   hbClockVars>>

\* time.sleep(...) at the end of an iteration or before continue
MainSleep ==
    /\ main_pc = "sleep"
    /\ main_pc' = "reset"
    /\ UNCHANGED <<main_m, hb_seen, hbThread, orders, entries,
                   dailyVars, spreadVars, barVars, otherVarsMain,
                   hbClockVars>>

\* recv_string returns one of msgs at time t.  Text that is not JSON fails in
\* json.loads; g_hb.last_recv_ts = now is executed for everything else, and
\* data.get then raises on JSON that is not an object
HbRecvFrom(msgs, t) ==
    /\ hb_pc = "recv"
    /\ \E msg \in msgs :
          IF msg.kind = "invalid"
          THEN /\ hb_pc' = "stale"
               /\ UNCHANGED <<g_hb, hb_msg, hb_warn>>
          ELSE /\ g_hb' = [g_hb EXCEPT !.last_recv_ts = t]
               /\ hb_warn' = [hb_warn EXCEPT !.received = @ + 1]
               /\ IF msg.kind = "object"
                  THEN hb_msg' = msg /\ hb_pc' = "w_halt"
                  ELSE hb_msg' = hb_msg /\ hb_pc' = "stale"
    /\ UNCHANGED <<main_pc, main_m, hb_seen, hb_src, orders, entries, hb_now,
                   dailyVars, spreadVars, barVars, otherVarsMain>>

\* a message arrives; the clock of this specification ticks once per message
HbRecv ==
    /\ g_hb.last_recv_ts < MaxHb
    /\ HbRecvFrom(HbMessages, g_hb.last_recv_ts + 1)

\* no message waiting (zmq.ZMQError)
HbNoMessage ==
    /\ hb_pc = "recv"
    /\ hb_pc' = "stale"
    /\ UNCHANGED <<main_pc, main_m, hb_seen, g_hb, hb_src, hb_msg, orders, entries,
                   hbClockVars, dailyVars, spreadVars, barVars, otherVarsMain>>

\* g_hb.mt5_halt = data.get("halt", False)
HbWriteHalt ==
    /\ hb_pc = "w_halt"
    /\ g_hb' = [g_hb EXCEPT !.mt5_halt = hb_msg.halt]
    /\ hb_src' = [hb_src EXCEPT !.mt5_halt = g_hb.last_recv_ts]
    /\ hb_pc' = "w_emg"
    /\ UNCHANGED <<main_pc, main_m, hb_seen, hb_msg, orders, entries,
                   dailyVars, spreadVars, barVars, otherVarsMain,
                   hbClockVars>>

\* g_hb.mt5_emg_system = data.get("emg_system", ""); g_hb.stale_warned = False
HbWriteEmg ==
    /\ hb_pc = "w_emg"
    /\ g_hb' = [g_hb EXCEPT !.mt5_emg_system = hb_msg.emg_system,
                            !.stale_warned = FALSE]
    /\ hb_src' = [hb_src EXCEPT !.mt5_emg_system = g_hb.last_recv_ts]
    /\ hb_warn' = [hb_warn EXCEPT !.n = 0, !.applied = @ + 1]
    /\ hb_pc' = "sync"
    /\ UNCHANGED <<main_pc, main_m, hb_seen, hb_msg, orders, entries, hb_now,
                   dailyVars, spreadVars, barVars, otherVarsMain>>

\* the daily_entries comparison and g_daily.entry_count = mt5_entries
HbSync ==
    /\ hb_pc = "sync"
    /\ HbEntrySync(hb_msg.daily_entries)
    /\ hb_pc' = "stale"
    /\ hb_msg' = HbNoMsg
    /\ UNCHANGED <<today, equity, main_pc, main_m, hb_seen, g_hb, hb_src, orders,
                   entries, spreadVars, barVars, otherVarsMain,
                   hbClockVars>>

\* the stale warning, with time.time() reading t
HbStaleAt(t) ==
    /\ hb_pc = "stale"
    /\ IF HbStaleDue(g_hb, t)
       THEN /\ g_hb' = [g_hb EXCEPT !.stale_warned = TRUE]
            /\ hb_warn' = [hb_warn EXCEPT !.n = @ + 1, !.total = @ + 1,
                                          !.gap = t - g_hb.last_recv_ts]
       ELSE UNCHANGED <<g_hb, hb_warn>>
    /\ hb_pc' = "recv"
    /\ UNCHANGED <<main_pc, main_m, hb_seen, hb_src, hb_msg, orders, entries, hb_now,
                   dailyVars, spreadVars, barVars, otherVarsMain>>

\* the stale check at whatever time has passed since the last message: still
\* within STALE_WARN_SEC, or beyond it
HbStale ==
    \E t \in {g_hb.last_recv_ts, g_hb.last_recv_ts + STALE_WARN_SEC + 1} : HbStaleAt(t)

MainNext ==
    \/ BarCloses
    \/ MainInit
    \/ MainCheckReset
    \/ MainHaltCheck
    \/ MainReadTs
    \/ MainReadHalt
    \/ MainReadEmg
    \/ MainGenerate
    \/ MainSend
    \/ MainEntryLoad
    \/ MainEntryStore
    \/ MainSleep
    \/ HbRecv
    \/ HbNoMessage
    \/ HbWriteHalt
    \/ HbWriteEmg
    \/ HbSync
    \/ HbStale

SpecMain == Init /\ [][MainNext]_vars

(***************************************************************************)
(* heartbeat_receiver_thread on its own, against the clock: messages of     *)
(* every kind, and time passing between the loop's rounds                   *)
(***************************************************************************)
MaxHbNow == 34
MaxHbRx == 3
otherVarsHbRx == <<gateVars, sweepVars, spreadVars, lcVars, hybridVars, barVars, sessionVars, swingVars, mgmtVars, snapVars, newsVars>>

\* what recv_string can return: a heartbeat, text that is not JSON, JSON that
\* is not an object
HbRxMessages ==
    HbMessages \cup {[present |-> TRUE, kind |-> "invalid"],
                     [present |-> TRUE, kind |-> "array"]}

\* time passes: a second, or STALE_WARN_SEC at once
HbRxTick ==
    /\ \E d \in {1, STALE_WARN_SEC} :
          /\ hb_now + d <= MaxHbNow
          /\ hb_now' = hb_now + d
    /\ UNCHANGED <<hb_warn, mainVars, dailyVars, otherVarsHbRx>>

HbRxRecv ==
    /\ hb_warn.received < MaxHbRx
    /\ HbRecvFrom(HbRxMessages, hb_now)

HbRxStale == HbStaleAt(hb_now)

HbRxNext ==
    \/ HbRxTick
    \/ HbRxRecv
    \/ HbNoMessage
    \/ HbWriteHalt
    \/ HbWriteEmg
    \/ HbSync
    \/ HbRxStale

SpecHbRx == Init /\ [][HbRxNext]_vars

otherVarsManage == <<gateVars, sweepVars, spreadVars, lcVars, dailyVars, hybridVars, barVars, sessionVars, swingVars, mainVars, hbClockVars, snapVars, newsVars>>

(***************************************************************************)
(* Position management calls: ai_position_management on a position       *)
(* entered at 100, one call after another                                  *)
(***************************************************************************)
MgmtPrices == {108, 110}
MgmtSlDists == {0, 10}
MgmtElapsed == {PHASE_TIME_THR_SEC - 1, PHASE_TIME_THR_SEC}
MgmtDists == {DIST_OVERRIDE_THR - 1, DIST_OVERRIDE_THR}
MgmtStrengths == {"STRONG", "NORMAL"}
MgmtZones ==
    {[ZoneResult EXCEPT !.confirmed_support = TRUE],
     [ZoneResult EXCEPT !.confirmed_resist = TRUE]}
MgmtVolStates == {"NORMAL", "PANIC"}

ManageCall ==
    \E action \in Directions, current_price \in MgmtPrices,
       sl_dist \in MgmtSlDists, tz_aware \in BOOLEAN,
       elapsed \in MgmtElapsed, dist \in MgmtDists,
       qtrend_dir \in Directions, qtrend_str \in MgmtStrengths,
       zone \in MgmtZones, vol_state \in MgmtVolStates :
        LET c == [called |-> TRUE, entry_price |-> 100,
                  current_price |-> current_price, sl_dist |-> sl_dist,
                  action |-> action, tz_aware |-> tz_aware,
                  elapsed |-> elapsed,
                  ctx |-> [MarketContext EXCEPT
                              !.distance_atr_ratio = dist,
                              !.vol_state = vol_state,
                              !.volatility_ratio = VolRatioOf(vol_state)],
                  qtrend_dir |-> qtrend_dir, qtrend_str |-> qtrend_str,
                  zone |-> zone]
        IN  /\ mgmt_call' = c
            /\ mgmt_res' = ai_position_management(c)
            /\ mgmt_prev_str' = IF mgmt_call.called THEN mgmt_call.qtrend_str
                                ELSE None
            /\ UNCHANGED otherVarsManage

ManageNext == ManageCall
SpecManage == Init /\ [][ManageNext]_vars

(***************************************************************************)
(* Webhook request threads and the resolver, one step per access to the   *)
(* shared snapshot                                                         *)
(***************************************************************************)
MaxAlerts == 2
otherVarsSnapshot == <<gateVars, sweepVars, spreadVars, lcVars, dailyVars, barVars, sessionVars, swingVars, mainVars, hbClockVars, mgmtVars, newsVars>>

\* request bodies: text that is not JSON, a complete alert, the empty object
SnapshotBodies ==
    {[kind |-> "invalid"],
     JsonObject([lc_direction |-> "buy", lc_conf |-> "0.82",
                 qtrend_dir |-> "sell", zone_confirmed_support |-> TRUE,
                 distance_atr_ratio |-> 3, direction_vs_sma |-> "above",
                 atr_to_spread |-> 12, m15_fvg_targets |-> <<5, 6, 7, 8>>]),
     JsonObject(EmptyFields)}

SnapshotLocal == CHOOSE local \in HybridLocals : TRUE

\* a request thread parses its body: a new object, not yet published, or
\* the 400 answer
WhParse(i) ==
    /\ wh_req[i].pc = "idle"
    /\ Len(tv_log) < MaxAlerts
    /\ \E body \in SnapshotBodies :
          LET cache == _parse_tv_alert(OrEmptyObject(get_json(body)), now)
          IN  IF cache # TvNone
              THEN /\ tv_log' = Append(tv_log, cache)
                   /\ wh_req' = [wh_req EXCEPT ![i] = [pc |-> "store",
                                                       ref |-> Len(tv_log) + 1]]
                   /\ UNCHANGED webhook_res
              ELSE /\ webhook_res' = [called |-> TRUE, body |-> body,
                                      status |-> 400, ok |-> FALSE,
                                      before |-> g_tv_cache]
                   /\ UNCHANGED <<tv_log, wh_req>>
    /\ UNCHANGED <<now, g_tv_cache, hybrid_res, tv_pub, rs, otherVarsSnapshot>>

\* with g_tv_cache_lock: g_tv_cache = cache
WhStore(i) ==
    /\ wh_req[i].pc = "store"
    /\ g_tv_cache' = tv_log[wh_req[i].ref]
    /\ tv_pub' = wh_req[i].ref
    /\ webhook_res' = [called |-> TRUE, body |-> JsonObject(EmptyFields),
                       status |-> 200, ok |-> TRUE, before |-> g_tv_cache]
    /\ wh_req' = [wh_req EXCEPT ![i] = WhIdle]
    /\ UNCHANGED <<now, hybrid_res, tv_log, rs, otherVarsSnapshot>>

\* with g_tv_cache_lock: tv = g_tv_cache
RsSnapshot ==
    /\ rs.pc = "idle"
    /\ rs' = [RsIdle EXCEPT !.pc = "fresh", !.tv = tv_pub]
    /\ UNCHANGED <<hybridVars, tv_log, tv_pub, wh_req, otherVarsSnapshot>>

\* _is_tv_fresh(tv); the fallback branch reads nothing of the snapshot
RsFresh ==
    /\ rs.pc = "fresh"
    /\ LET tv == TvDeref(tv_log, SnapshotRef(rs.tv, tv_pub))
       IN  IF _is_tv_fresh(tv, now)
           THEN /\ rs' = [rs EXCEPT !.pc = "ctx", !.t = now]
                /\ UNCHANGED hybrid_res
           ELSE /\ rs' = RsIdle
                /\ hybrid_res' =
                      [called |-> TRUE, tv |-> tv, t |-> now, spread |-> 2,
                       r |-> resolve_hybrid_ai_inputs(tv, now, SnapshotLocal,
                                 SnapshotLocal.ctx.atr_m5, 2, "S")]
    /\ UNCHANGED <<now, g_tv_cache, webhook_res, tv_log, tv_pub, wh_req,
                   otherVarsSnapshot>>

\* ctx = _tv_cache_to_market_context(tv, ...)
RsCtx ==
    /\ rs.pc = "ctx"
    /\ rs' = [rs EXCEPT !.pc = "zone",
                        !.ctx = _tv_cache_to_market_context(
                                    TvDeref(tv_log, SnapshotRef(rs.tv, tv_pub)),
                                    SnapshotLocal.ctx.atr_m5, 2, "S")]
    /\ UNCHANGED <<hybridVars, tv_log, tv_pub, wh_req, otherVarsSnapshot>>

\* zone = _tv_cache_to_zone_result(tv, atr_m5)
RsZone ==
    /\ rs.pc = "zone"
    /\ rs' = [rs EXCEPT !.pc = "return",
                        !.zone = _tv_cache_to_zone_result(
                                    TvDeref(tv_log, SnapshotRef(rs.tv, tv_pub)))]
    /\ UNCHANGED <<hybridVars, tv_log, tv_pub, wh_req, otherVarsSnapshot>>

\* the return statement reads the remaining fields
RsReturn ==
    /\ rs.pc = "return"
    /\ LET tv == TvDeref(tv_log, SnapshotRef(rs.tv, tv_pub))
       IN  hybrid_res' =
              [called |-> TRUE, tv |-> TvDeref(tv_log, rs.tv), t |-> rs.t,
               spread |-> 2, published |-> tv_pub,
               r |-> [ctx |-> rs.ctx,
                      lc_dir |-> T("TV", tv.lc_direction),
                      lc_conf |-> T("TV", tv.lc_conf),
                      qtrend_dir |-> T("TV", tv.qtrend_dir),
                      qtrend_str |-> T("TV", tv.qtrend_str),
                      qtrend_changed |-> T("TV", tv.qtrend_changed),
                      zone |-> T("TV", rs.zone),
                      osgfc_color |-> T("TV", tv.osgfc_color),
                      osgfc_changed |-> T("TV", tv.osgfc_changed),
                      m15_fvg_targets |-> T("TV", tv.m15_fvg_targets),
                      source_tag |-> "TV"]]
    /\ rs' = RsIdle
    /\ UNCHANGED <<now, g_tv_cache, webhook_res, tv_log, tv_pub, wh_req,
                   otherVarsSnapshot>>

SnapshotTick == HybridTick

SnapshotNext ==
    \/ \E i \in WhThreads : WhParse(i)
    \/ \E i \in WhThreads : WhStore(i)
    \/ RsSnapshot
    \/ RsFresh
    \/ RsCtx
    \/ RsZone
    \/ RsReturn
    \/ SnapshotTick

SpecSnapshot == Init /\ [][SnapshotNext]_vars

(***************************************************************************)
(* The news-block sync of main(), one loop iteration per step             *)
(***************************************************************************)
MaxNewsClock == 60
otherVarsNews == <<gateVars, sweepVars, spreadVars, lcVars, dailyVars, hybridVars, barVars, sessionVars, swingVars, mainVars, hbClockVars, mgmtVars, snapVars>>

\* a schedule with one release, as the file's own example entries
NewsScheduleFilled == <<[name |-> "US CPI", jst |-> 40]>>

\* the operator fills NEWS_SCHEDULE in before the process starts
NewsConfigure ==
    /\ news_clock = 0
    /\ ~news_last.called
    /\ news_cfg = NEWS_SCHEDULE
    /\ news_cfg' = NewsScheduleFilled
    /\ UNCHANGED <<news_clock, g_news_block_until, prev_news_blocked, news_sent,
                   news_last, otherVarsNews>>

NewsTick ==
    /\ news_clock + 10 <= MaxNewsClock
    /\ news_clock' = news_clock + 10
    /\ UNCHANGED <<news_cfg, g_news_block_until, prev_news_blocked, news_sent,
                   news_last, otherVarsNews>>

\* one iteration of the loop as far as the news state goes: halted (daily
\* halt or MT5 halt) it sleeps and continues; otherwise it asks
\* is_news_blocked, sends on a change (ok: did _zmq_send succeed) and
\* remembers the answer.  try_generate_lrr_signal asks again at the same
\* time, which changes nothing more.
NewsIteration ==
    /\ \E halted \in BOOLEAN, ok \in BOOLEAN :
          IF halted
          THEN /\ news_last' = [called |-> TRUE, t |-> news_clock,
                                halted |-> TRUE, asked |-> FALSE]
               /\ UNCHANGED <<g_news_block_until, prev_news_blocked, news_sent>>
          ELSE LET r == is_news_blocked(news_cfg, g_news_block_until, news_clock)
               IN  /\ g_news_block_until' = r.block_until
                   /\ news_sent' = IF r.blocked # prev_news_blocked /\ ok
                                   THEN [called |-> TRUE, news_block |-> r.blocked]
                                   ELSE news_sent
                   /\ prev_news_blocked' = r.blocked
                   /\ news_last' = [called |-> TRUE, t |-> news_clock,
                                    halted |-> FALSE, asked |-> TRUE,
                                    changed |-> r.blocked # prev_news_blocked,
                                    ok |-> ok]
    /\ UNCHANGED <<news_cfg, news_clock, otherVarsNews>>

NewsNext ==
    \/ NewsConfigure
    \/ NewsTick
    \/ NewsIteration

SpecNews == Init /\ [][NewsNext]_vars

(***************************************************************************)
(* Properties                                                              *)
(***************************************************************************)

\* C1: whenever ctx.atr_to_spread is below ATS_HARD_REJECT (0 included), the
\* GateResult has verdict HARD_REJECT and multiplier exactly 0, whatever the
\* other inputs are.
C1_HardFloorRejects ==
    (gate_call.called /\ gate_res.ctx.atr_to_spread < ATS_HARD_REJECT)
        => (gate_res.verdict = "HARD_REJECT" /\ gate_res.multiplier = 0)

\* C2: every GateResult has multiplier = 0 if and only if its verdict is not
\* ENTER.
C2_MultiplierZeroIffNotEnter ==
    gate_call.called
        => ((gate_res.multiplier = 0) <=> (gate_res.verdict # "ENTER"))

\* wick of the bar beyond its body on the pierced side, and the pierce tests
SweepBody == Abs(sweep_call.bar.close - sweep_call.bar.open)
SweepWickUpper == sweep_call.bar.high - Max(sweep_call.bar.open, sweep_call.bar.close)
SweepWickLower == Min(sweep_call.bar.open, sweep_call.bar.close) - sweep_call.bar.low
SweepUpperPierce == sweep_call.bar.high > sweep_call.swing_high + SWEEP_MIN_PIPS
SweepLowerPierce == sweep_call.bar.low < sweep_call.swing_low - SWEEP_MIN_PIPS

\* C5: detect_sweep never returns BUY or SELL for a bar whose piercing wick is
\* more than 3 times its body |close - open|, bars with a zero body included.
C5_LongWickNeverSweeps ==
    sweep_call.called =>
        /\ (SweepUpperPierce /\ SweepWickUpper > 3 * SweepBody)
               => sweep_res.action # "SELL"
        /\ (SweepLowerPierce /\ SweepWickLower > 3 * SweepBody)
               => sweep_res.action # "BUY"

\* C6: SELL (sweep_extreme = high) only if the high exceeds swing_high by more
\* than SWEEP_MIN_PIPS and at most SWEEP_MAX_PIPS and close < swing_high; BUY
\* (sweep_extreme = low) only if the low undercuts swing_low by more than
\* SWEEP_MIN_PIPS and at most SWEEP_MAX_PIPS and close > swing_low; no
\* direction in every other case.
C6_SweepOnlyWithinBounds ==
    sweep_call.called =>
        LET bar == sweep_call.bar
            upOK == /\ bar.high - sweep_call.swing_high > SWEEP_MIN_PIPS
                    /\ bar.high - sweep_call.swing_high <= SWEEP_MAX_PIPS
                    /\ bar.close < sweep_call.swing_high
            loOK == /\ sweep_call.swing_low - bar.low > SWEEP_MIN_PIPS
                    /\ sweep_call.swing_low - bar.low <= SWEEP_MAX_PIPS
                    /\ bar.close > sweep_call.swing_low
        IN  /\ sweep_res.action = "SELL" => (upOK /\ sweep_res.sweep_extreme = bar.high)
            /\ sweep_res.action = "BUY" => (loOK /\ sweep_res.sweep_extreme = bar.low)
            /\ (~upOK /\ ~loOK) => sweep_res.action = "NONE"
            /\ sweep_res.action \in {"SELL", "BUY", "NONE"}

\* C6 witness: a SELL at the largest accepted overshoot, closing inside the pool
C6_Witness ==
    /\ sweep_call.called
    /\ sweep_res.action = "SELL"
    /\ sweep_call.bar.high - sweep_call.swing_high = SWEEP_MAX_PIPS
    /\ sweep_res.sweep_extreme = sweep_call.bar.high

\* distance of the median from the fed value: now, before the last update, and
\* at the start of the run of equal observations
SpreadDist == Abs(g_spread_med - spread_feed.x)
SpreadDistPrev == Abs(spread_feed.prev - spread_feed.x)
SpreadDistStart == Abs(spread_feed.start - spread_feed.x)
SpreadCrossed == (spread_feed.prev - spread_feed.x) * (g_spread_med - spread_feed.x) < 0

\* C4 (as stated): feeding the same value X, every update moves the median
\* toward X by exactly SPREAD_MED_LR, the distance |median - X| never
\* increases, and the median never passes to the other side of X.
C4_MonotoneNoOvershoot ==
    spread_feed.n >= 1 =>
        /\ Abs(g_spread_med - spread_feed.prev) = SPREAD_MED_LR
        /\ SpreadDist <= SpreadDistPrev
        /\ ~SpreadCrossed

\* C4 (amended): every update moves the median by exactly SPREAD_MED_LR toward
\* X unless it already equals X (then it stays); while the distance is at
\* least SPREAD_MED_LR it shrinks by exactly that step without passing X; once
\* it is below SPREAD_MED_LR the median passes X and stays within
\* SPREAD_MED_LR of it, so after n updates the distance is at most
\* max(|m - X| - n * SPREAD_MED_LR, SPREAD_MED_LR).
C4_StepTowardWithinLR ==
    spread_feed.n >= 1 =>
        /\ g_spread_med - spread_feed.prev
               = SPREAD_MED_LR * Sign(spread_feed.x - spread_feed.prev)
        /\ SpreadDistPrev >= SPREAD_MED_LR
               => (SpreadDist = SpreadDistPrev - SPREAD_MED_LR /\ ~SpreadCrossed)
        /\ SpreadDistPrev < SPREAD_MED_LR => SpreadDist <= SPREAD_MED_LR
        /\ SpreadDist <= Max(SpreadDistStart - spread_feed.n * SPREAD_MED_LR,
                             SPREAD_MED_LR)

\* C4 witness: in a run of at least 3 equal observations the median has just
\* passed to the other side of X
C4_Witness ==
    /\ spread_feed.n >= 3
    /\ SpreadCrossed
    /\ SpreadDist > SpreadDistPrev

LcSet(seq) == {seq[k] : k \in DOMAIN seq}

\* C7 (as stated): an empty neighbor set, no vote and a tie all give NEUTRAL
\* with confidence exactly 0.
C7_NoMatchNeutralZero ==
    (/\ lc_res.called
     /\ \/ lc_res.r.neighbors = <<>>
        \/ lc_res.r.buy_votes = lc_res.r.sell_votes)
        => (lc_res.r.direction = "NEUTRAL" /\ lc_res.r.conf = 0)

\* C7 (amended): an empty neighbor set or no vote gives NEUTRAL with
\* confidence 0; a tie with at least one vote each gives NEUTRAL with
\* confidence 0.5; NEUTRAL is returned in no other case.
C7_NeutralZeroOrHalfOnTie ==
    lc_res.called =>
        /\ (lc_res.r.neighbors = <<>> \/ lc_res.r.buy_votes + lc_res.r.sell_votes = 0)
              => (lc_res.r.direction = "NEUTRAL" /\ lc_res.r.conf = 0)
        /\ (lc_res.r.buy_votes = lc_res.r.sell_votes /\ lc_res.r.buy_votes > 0)
              => (lc_res.r.direction = "NEUTRAL" /\ lc_res.r.conf = 50)
        /\ lc_res.r.direction = "NEUTRAL"
              => lc_res.r.buy_votes = lc_res.r.sell_votes

\* C7 witness: a tie with votes on both sides among the full k neighbors
C7_Witness ==
    /\ lc_res.called
    /\ Len(lc_res.r.neighbors) = LC_NEIGHBORS
    /\ lc_res.r.buy_votes = lc_res.r.sell_votes
    /\ lc_res.r.buy_votes >= 2
    /\ lc_res.r.direction = "NEUTRAL"

\* C8: for n >= 30 every sampled index i satisfies i < qidx and i + 4 < qidx
\* with qidx = n - 2, and every close read for a label lies before qidx.
C8_NoLookahead ==
    (lc_res.called /\ lc_call.n >= 30) =>
        LET qidx == lc_call.n - 2
        IN  /\ \A i \in LcSet(lc_res.r.sampled) : i < qidx /\ i + 4 < qidx
            /\ LcSet(lc_res.r.neighbors) \subseteq LcSet(lc_res.r.sampled)
            /\ \A j \in lc_res.r.reads : j < qidx

\* C8 witness: the search window is cut at LC_MAX_BARS_BK, there are more
\* candidates than k, the sort moved a later candidate to the front, and all
\* k labels were read
C8_Witness ==
    /\ lc_res.called
    /\ lc_call.n - 2 - LC_MAX_BARS_BK > 25
    /\ Len(lc_res.r.sampled) > LC_NEIGHBORS
    /\ Len(lc_res.r.neighbors) = LC_NEIGHBORS
    /\ lc_res.r.neighbors[1] # lc_res.r.sampled[1]
    /\ Cardinality(lc_res.r.reads) = LC_NEIGHBORS
    /\ lc_res.r.direction = "BUY"

\* C3: once g_daily.halt is true, is_daily_halted returns halted and no
\* operation (on_trade_closed, on_entry_sent, the heartbeat's entry_count
\* overwrite, a check_daily_reset that sees the stored date) clears it; only
\* a check_daily_reset that observes a date different from the stored one
\* makes halt false again.
C3_HaltSticky ==
    /\ (daily_last.halt_before /\ daily_last.op = "is_daily_halted")
          => (daily_last.halted /\ g_daily.halt)
    /\ (daily_last.halt_before /\ ~g_daily.halt)
          => (/\ daily_last.op = "check_daily_reset"
              /\ g_daily.date # daily_last.date_before
              /\ g_daily.date = today)
    /\ (daily_last.op = "is_daily_halted" /\ daily_last.halted) => g_daily.halt

\* C3 witness: the halt was latched for consecutive losses, the streak has
\* since been reset to 0 and no other trigger holds, and is_daily_halted has
\* just returned halted again on the stored day
C3_Witness ==
    /\ daily_last.op = "is_daily_halted"
    /\ daily_last.halt_before
    /\ daily_last.halted
    /\ g_daily.halt_reason = "consec_losses"
    /\ g_daily.consec_losses = 0
    /\ g_daily.entry_count < MAX_ENTRIES_PER_DAY
    /\ ~DailyLossHit(g_daily, equity)
    /\ g_daily.date = today

\* the snapshot existed and was at most TV_SIGNAL_STALE_SEC old at the call
HybridFreshAtCall ==
    /\ hybrid_res.tv.present
    /\ hybrid_res.t - hybrid_res.tv.recv_ts <= TV_SIGNAL_STALE_SEC

\* the origins of everything the resolver returned
HybridCtxOrigins == {hybrid_res.r.ctx[f].src : f \in DOMAIN hybrid_res.r.ctx}
HybridDetectorOrigins ==
    {hybrid_res.r[f].src : f \in DOMAIN hybrid_res.r \ {"ctx", "source_tag"}}

\* C9 (as stated): with a fresh snapshot every returned value, all
\* MarketContext fields included, comes from the snapshot; otherwise every
\* one is computed locally; the two origins are never mixed.
C9_NeverMixesSources ==
    hybrid_res.called =>
        /\ HybridFreshAtCall
              => HybridCtxOrigins \cup HybridDetectorOrigins = {"TV"}
        /\ ~HybridFreshAtCall
              => HybridCtxOrigins \cup HybridDetectorOrigins = {"MT5"}

\* C9 (amended): with a fresh snapshot the classifier, trend, zone, momentum
\* and FVG targets and the context fields distance_atr_ratio,
\* volatility_ratio, vol_state, direction_vs_sma and sma20_m15 come from the
\* snapshot, atr_to_spread comes from the snapshot only if its value there is
\* positive and is computed locally otherwise, atr_m5 and current_session are
\* always local and atr_m15_raw stays at its default; without a fresh
\* snapshot every value is local.
C9_SnapshotExceptLocalAtr ==
    hybrid_res.called =>
        /\ HybridFreshAtCall =>
              /\ hybrid_res.r.source_tag = "TV"
              /\ HybridDetectorOrigins = {"TV"}
              /\ \A f \in {"distance_atr_ratio", "volatility_ratio", "vol_state",
                            "direction_vs_sma", "sma20_m15"} :
                     hybrid_res.r.ctx[f].src = "TV"
              /\ hybrid_res.r.lc_dir.v = hybrid_res.tv.lc_direction
              /\ hybrid_res.r.ctx.atr_to_spread.src
                     = (IF hybrid_res.tv.atr_to_spread > 0 THEN "TV" ELSE "MT5")
              /\ hybrid_res.r.ctx.atr_m5.src = "MT5"
              /\ hybrid_res.r.ctx.current_session.src = "MT5"
              /\ hybrid_res.r.ctx.atr_m15_raw.src = "DEFAULT"
        /\ ~HybridFreshAtCall =>
              /\ hybrid_res.r.source_tag = "MT5"
              /\ HybridCtxOrigins \cup HybridDetectorOrigins = {"MT5"}

\* C9 witness: a snapshot exactly TV_SIGNAL_STALE_SEC old without
\* atr_to_spread was used, and the context mixes the three origins
C9_Witness ==
    /\ hybrid_res.called
    /\ hybrid_res.tv.present
    /\ hybrid_res.t - hybrid_res.tv.recv_ts = TV_SIGNAL_STALE_SEC
    /\ hybrid_res.tv.atr_to_spread = 0
    /\ hybrid_res.r.source_tag = "TV"
    /\ HybridCtxOrigins = {"TV", "MT5", "DEFAULT"}
    /\ hybrid_res.r.ctx.atr_to_spread = T("MT5", 15)

\* C10: the bar times that pass the new-bar check are strictly increasing
\* (no bar passes twice), a poll that sees enough data passes the bar exactly
\* when it is newer than g_last_bar_time was (or nothing had passed yet),
\* and g_last_bar_time, the last time passed, never decreases.
C10_BarOncePerTimestamp ==
    /\ \A i, j \in DOMAIN bars_passed : i < j => bars_passed[i] < bars_passed[j]
    /\ g_last_bar_time = (IF bars_passed = <<>> THEN 0
                          ELSE bars_passed[Len(bars_passed)])
    /\ poll_last.called =>
          /\ poll_last.last_before <= g_last_bar_time
          /\ poll_last.outcome = "insufficient_data"
                => poll_last.len < LP_LOOKBACK + 2
          /\ poll_last.outcome = "old_bar"
                => (/\ poll_last.last_before # 0
                    /\ poll_last.bar_ts <= poll_last.last_before)
          /\ poll_last.outcome \notin {"insufficient_data", "old_bar"}
                => (/\ poll_last.len >= LP_LOOKBACK + 2
                    /\ poll_last.last_before = 0
                          \/ poll_last.bar_ts > poll_last.last_before
                    /\ g_last_bar_time = poll_last.bar_ts)

\* C10 witness: three bars have passed, then the feed served the second of
\* them again with enough data and the poll rejected it
C10_Witness ==
    /\ Len(bars_passed) >= 3
    /\ poll_last.called
    /\ poll_last.outcome = "old_bar"
    /\ poll_last.len = LcFetchCount
    /\ poll_last.bar_ts = bars_passed[2]
    /\ poll_last.bar_ts < g_last_bar_time

\* the session start boundaries with the rank that starts there, and the
\* order of the ranks
SessionStarts ==
    (180 :> "B") @@ (720 :> "INVALID") @@ (1020 :> "A") @@ (1320 :> "A") @@ (1340 :> "S")
RankOrder == ("INVALID" :> 0) @@ ("B" :> 1) @@ ("A" :> 2) @@ ("S" :> 3)
RankMult == ("INVALID" :> 0) @@ ("B" :> 70) @@ ("A" :> 100) @@ ("S" :> 150)

\* two calls one minute apart, the second on a session start boundary
SessionAtStart ==
    /\ session_last.called
    /\ session_last.prev.called
    /\ session_last.time_min \in DOMAIN SessionStarts
    /\ session_last.prev.time_min = session_last.time_min - 1

\* C11 (as stated): at every session start boundary the minute before yields
\* a lower rank than the boundary minute, the boundary minute yields the new
\* session's rank, and every minute maps to one rank with its fixed
\* multiplier.
C11_LowerRankBeforeBoundary ==
    /\ session_last.called =>
          (/\ session_last.rank \in DOMAIN RankMult
           /\ session_last.mult = RankMult[session_last.rank])
    /\ SessionAtStart =>
          (/\ session_last.rank = SessionStarts[session_last.time_min]
           /\ RankOrder[session_last.prev.rank] < RankOrder[session_last.rank])

\* the rank in force in the minute before each session start boundary
SessionBefore ==
    (180 :> "A") @@ (720 :> "A") @@ (1020 :> "INVALID") @@ (1320 :> "A") @@ (1340 :> "A")

\* C11 (amended): the boundary minute yields the new session's rank and the
\* minute before yields the rank of the band that ends there (A before 03:00,
\* 12:00, 22:00 and 22:20, INVALID before 17:00), which is lower than the new
\* rank only at 17:00 and 22:20; every minute maps to one rank with its fixed
\* multiplier.
C11_BoundaryMinuteStartsRank ==
    /\ session_last.called =>
          (/\ session_last.rank \in DOMAIN RankMult
           /\ session_last.mult = RankMult[session_last.rank])
    /\ SessionAtStart =>
          (/\ session_last.rank = SessionStarts[session_last.time_min]
           /\ session_last.prev.rank = SessionBefore[session_last.time_min]
           /\ RankOrder[session_last.prev.rank] < RankOrder[session_last.rank]
                 <=> session_last.time_min \in {1020, 1340})

\* C11 witness: called at 22:19 and again at 22:20, where S starts
C11_Witness ==
    /\ SessionAtStart
    /\ session_last.time_min = 1340
    /\ session_last.rank = "S"
    /\ session_last.prev.rank = "A"

\* exactly two pivots were found; their distance and the width, both in
\* tenths of a cent
SwingTwoPivots == swing_res.called /\ Len(swing_res.r.prices) = 2
SwingPivotGap == 10 * Abs(swing_res.r.prices[1] - swing_res.r.prices[2])
SwingWidth == swing_call.atr * ZONE_WIDTH_FACTOR

\* C12: two pivots closer than ATR x ZONE_WIDTH_FACTOR form one cluster with
\* touch count 2 and the average price, two pivots farther apart form two
\* clusters of one touch each, and the returned zones are exactly the
\* clusters with at least ZONE_MIN_TOUCHES touches.
C12_PivotsMergeWithinWidth ==
    /\ swing_res.called =>
          swing_res.r.zones
             = SelectSeq(swing_res.r.clusters, LAMBDA c : c.cnt >= ZONE_MIN_TOUCHES)
    /\ (SwingTwoPivots /\ SwingPivotGap < SwingWidth) =>
          (/\ swing_res.r.clusters
                 = <<[sum |-> swing_res.r.prices[1] + swing_res.r.prices[2], cnt |-> 2]>>
           /\ swing_res.r.zones = swing_res.r.clusters)
    /\ (SwingTwoPivots /\ SwingPivotGap > SwingWidth) =>
          (/\ Len(swing_res.r.clusters) = 2
           /\ \A k \in 1..2 : swing_res.r.clusters[k].cnt = 1
           /\ swing_res.r.zones = <<>>)

\* C12 witness: the fixture's merging half, ATR 1.0 and two swing highs 0.30
\* apart reported as one zone of two touches
C12_Witness ==
    /\ SwingTwoPivots
    /\ swing_call.atr = 100
    /\ swing_call.is_high
    /\ SwingPivotGap = 300
    /\ Len(swing_res.r.zones) = 1
    /\ swing_res.r.zones[1].cnt = 2

\* the hard-reject conditions of step 1 as the gate tests them, and the one
\* reason each gives, from the context alone
GateRejectBand(ctx) == ctx.atr_to_spread > 0 /\ ctx.atr_to_spread < ATS_HARD_REJECT
GateRejectReason(ctx) ==
    IF GateRejectBand(ctx) THEN R("EV_REJECT", ctx.atr_to_spread)
    ELSE IF ctx.distance_atr_ratio >= DIST_HARD_REJECT
    THEN R("DIST_REJECT", ctx.distance_atr_ratio)
    ELSE R("PANIC", ctx.volatility_ratio)

\* C20: if distance_atr_ratio >= DIST_HARD_REJECT, or vol_state is PANIC, or
\* atr_to_spread is in the reject band, the verdict is HARD_REJECT with
\* hard_reject set, the score is the initial 0 and the reason is the single
\* reject reason fixed by the context, whatever the additive inputs are.
C20_HardRejectShortCircuits ==
    (/\ gate_call.called
     /\ \/ gate_res.ctx.distance_atr_ratio >= DIST_HARD_REJECT
        \/ gate_res.ctx.vol_state = "PANIC"
        \/ GateRejectBand(gate_res.ctx))
        => (/\ gate_res.verdict = "HARD_REJECT"
            /\ gate_res.hard_reject
            /\ gate_res.score = 0
            /\ gate_res.reason = <<GateRejectReason(gate_res.ctx)>>)

\* C20 witness: a PANIC context alone rejects a call whose additive inputs
\* all agree with the action in the best session
C20_Witness ==
    /\ gate_call.called
    /\ gate_res.verdict = "HARD_REJECT"
    /\ gate_res.ctx.vol_state = "PANIC"
    /\ gate_res.ctx.distance_atr_ratio < DIST_HARD_REJECT
    /\ ~GateRejectBand(gate_res.ctx)
    /\ gate_call.action = "BUY"
    /\ gate_res.lc_direction = "BUY"
    /\ gate_res.lc_conf = 80
    /\ gate_res.qtrend_dir = "BUY"
    /\ gate_call.session_rank = "S"
    /\ gate_call.mtf_mult = 100

\* the body of the last request does not parse: it is not JSON, it is not an
\* object, or its lc_conf cannot be converted to a number
WebhookBodyFails ==
    \/ webhook_res.body.kind # "object"
    \/ /\ "lc_conf" \in DOMAIN webhook_res.body.data
       /\ ParseFloat(webhook_res.body.data.lc_conf) = None

\* C17: a request whose body fails to parse (not valid JSON, or a field that
\* cannot be converted) gets an error response and leaves g_tv_cache as it
\* was; only a parsed alert replaces the cache.
C17_ParseFailureKeepsCache ==
    webhook_res.called =>
        /\ WebhookBodyFails => (webhook_res.status # 200 /\ g_tv_cache = webhook_res.before)
        /\ g_tv_cache # webhook_res.before => ~WebhookBodyFails


\* the last cycle ran without its data: too few bars, or no tick
CycleDataMissing ==
    \/ poll_last.len < LP_LOOKBACK + 2
    \/ "tick" \in DOMAIN poll_last /\ ~poll_last.tick.present

\* C16: when bar history is insufficient or the current tick is missing the
\* cycle is skipped: try_generate_lrr_signal returns no signal.
C16_NoDataSkipsCycle ==
    (poll_last.called /\ CycleDataMissing) => poll_last.outcome # "signal"


\* a step of heartbeat_receiver_thread: its position changes
HbThreadStep == hb_pc' # hb_pc

\* C13: main() is the sole writer of DailyState: no step of the heartbeat
\* receiver thread changes any field of g_daily.
C13_HeartbeatLeavesDailyAlone ==
    [][HbThreadStep => g_daily' = g_daily]_vars


\* C14: the values of last_recv_ts, mt5_halt and mt5_emg_system that main()
\* reads in one halt check all come from the same heartbeat message (or all
\* from the initial state), never from a partially applied update.
C14_HaltCheckReadsOneMessage ==
    /\ hb_seen.halt_src # None => hb_seen.halt_src = hb_seen.last_recv_ts
    /\ hb_seen.emg_src # None => hb_seen.emg_src = hb_seen.last_recv_ts


\* how many send_signal calls returned True
OrdersSent == Cardinality({i \in DOMAIN orders : orders[i].ok})

\* the risk of one entry on the data main() meets
MainRisk == calc_risk_pct(SessionMult("S"), VOL_MULT_NORMAL, 20)

\* on_entry_sent is running for the last order
MainInEntry == main_pc \in {"entry_load", "entry_store"}

\* C15: delivery is at-most-once.  Every signal try_generate_lrr_signal returns
\* gets exactly one send attempt, no bar gets a second one, and on_entry_sent
\* runs once for each successful send and never for a failed one, so
\* daily_risk_used grows by one risk per successful send.
C15_AtMostOnceDelivery ==
    /\ \A i, j \in DOMAIN orders : i < j => orders[i].bar_ts < orders[j].bar_ts
    /\ main_pc = "send" =>
          /\ poll_last.outcome = "signal"
          /\ \A i \in DOMAIN orders : orders[i].bar_ts < poll_last.bar_ts
    /\ (poll_last.called /\ poll_last.outcome = "signal" /\ main_pc # "send") =>
          /\ orders # <<>>
          /\ orders[Len(orders)].bar_ts = poll_last.bar_ts
    /\ entries = IF MainInEntry THEN OrdersSent - 1 ELSE OrdersSent
    /\ g_daily.daily_risk_used = entries * MainRisk

\* a send succeeded, a later one failed, and the next poll of the failed bar
\* found it already processed
C15_Witness ==
    /\ Len(orders) >= 2
    /\ orders[1].ok
    /\ ~orders[Len(orders)].ok
    /\ poll_last.outcome = "old_bar"
    /\ poll_last.bar_ts = orders[Len(orders)].bar_ts
    /\ entries = 1
    /\ main_pc = "sleep"


\* a step of main(): its position changes
MainStep == main_pc' # main_pc

\* the halt check of this iteration read a heartbeat time and a set halt flag
MainSawHalt == hb_seen.last_recv_ts > 0 /\ hb_seen.mt5_halt

\* the step runs no evaluation cycle and sends nothing
MainStepQuiet == UNCHANGED <<g_last_bar_time, g_spread_med, poll_last, orders>>

\* C18: an iteration in which is_daily_halted reports halted, or in which a
\* heartbeat has been received and the counterpart's halt flag is set, goes
\* straight to the sleep: try_generate_lrr_signal is not called, g_last_bar_time
\* and the spread median are unchanged and no ORDER is sent.
C18_HaltedIterationSkips ==
    /\ [](main_pc \in {"generate", "send", "entry_load", "entry_store"}
             => ~g_daily.halt /\ ~MainSawHalt)
    /\ [][MainStep =>
            /\ (main_pc = "halt" /\ DailyHaltCheck(g_daily, equity).halted)
                  => (main_pc' = "sleep" /\ MainStepQuiet)
            /\ (main_pc = "hb_halt" /\ g_hb.mt5_halt)
                  => (main_pc' = "hb_emg" /\ MainStepQuiet)
            /\ main_pc = "hb_emg" => (main_pc' = "sleep" /\ MainStepQuiet)
            /\ main_pc = "sleep" => (main_pc' = "reset" /\ MainStepQuiet)]_vars

\* an iteration asleep on the counterpart's halt flag after earlier iterations
\* sent an ORDER, with a newer bar waiting that it did not look at
C18_Witness ==
    /\ main_pc = "sleep"
    /\ main_m.reason = "mt5_halt"
    /\ MainSawHalt
    /\ orders # <<>>
    /\ feed.time > g_last_bar_time

\* an iteration asleep on the daily halt with a newer bar waiting
C18_WitnessDaily ==
    /\ main_pc = "sleep"
    /\ main_m.reason = "daily_halt"
    /\ g_daily.halt
    /\ feed.time > g_last_bar_time


\* C19: within one JST calendar day the number of ORDER messages main() sent
\* successfully never exceeds MAX_ENTRIES_PER_DAY, under every interleaving
\* with the heartbeat thread and every sequence of heartbeat messages.
C19_DailyEntryCap ==
    g_daily.date = today => OrdersSent <= MAX_ENTRIES_PER_DAY


\* the tier the score and the MTF multiplier call for, in hundredths
GateTier ==
    IF gate_res.score >= GATE_STRONG_SCORE THEN gate_call.mtf_mult
    ELSE IF gate_res.score >= GATE_MIN_SCORE THEN (gate_call.mtf_mult * 80) \div 100
    ELSE 0

\* C21: when no hard-reject condition holds the score is within [-100, 150],
\* the multiplier is mtf_mult for score >= GATE_STRONG_SCORE, 0.8 x mtf_mult
\* for GATE_MIN_SCORE <= score < GATE_STRONG_SCORE and zero below, and the
\* verdict is ENTER iff that multiplier is > 0, otherwise SKIP.
C21_ScoreTierVerdict ==
    (gate_call.called /\ ~gate_res.hard_reject)
        => (/\ -100 <= gate_res.score /\ gate_res.score <= 150
            /\ gate_res.multiplier = GateTier
            /\ gate_res.verdict = IF gate_res.multiplier > 0 THEN "ENTER" ELSE "SKIP")

\* the same without the multiplier field of results that are not ENTER
C21_ScoreTierVerdictOfEnter ==
    (gate_call.called /\ ~gate_res.hard_reject)
        => (/\ -100 <= gate_res.score /\ gate_res.score <= 150
            /\ gate_res.verdict = IF GateTier > 0 THEN "ENTER" ELSE "SKIP"
            /\ gate_res.verdict = "ENTER" => gate_res.multiplier = GateTier)


\* C22: the staleness warning is one-shot: it is raised only after a heartbeat
\* has been received and more than STALE_WARN_SEC after the last message, at
\* most once between two applied messages, and an applied message clears
\* stale_warned so that a later gap can warn again.
C22_StaleWarningOneShot ==
    /\ hb_warn.n <= 1
    /\ g_hb.stale_warned <=> hb_warn.n = 1
    /\ hb_warn.total > 0 => (hb_warn.received > 0 /\ hb_warn.gap > STALE_WARN_SEC)
    /\ hb_pc = "sync" => ~g_hb.stale_warned

\* a warning, a heartbeat that cleared it, and a second warning after the next
\* gap
C22_Witness ==
    /\ hb_warn.total >= 2
    /\ hb_warn.applied >= 2
    /\ hb_warn.n = 1
    /\ g_hb.stale_warned


\* a round of the receiver that applies no message: none was waiting, or the
\* one received could not be decoded or processed
HbRoundSkipsMessage == hb_pc = "recv" /\ hb_pc' = "stale"

\* C23: a heartbeat message that cannot be decoded or processed (invalid JSON,
\* or JSON that is not an object) is skipped and leaves every HeartbeatState
\* field unchanged.
C23_BadMessageLeavesStateAlone ==
    [][HbRoundSkipsMessage => g_hb' = g_hb]_vars

\* ---- C24 ----
\* the three conditions as the specification words them, on the values of
\* the last is_spread_blocked call
SpreadOverAny(c) ==
    \/ c.spread > SPREAD_HARD_CAP
    \/ 10 * c.spread > 25 * c.med
    \/ 100 * c.spread > 18 * c.atr_m5

\* C24: whatever value the running median has reached, also zero or below,
\* is_spread_blocked reports blocked exactly when the spread exceeds
\* SPREAD_HARD_CAP, or 2.5 x the running median, or 0.18 x the ATR.
C24_SpreadBlockedIffAnyLimit ==
    spread_chk.called => (spread_chk.blocked <=> SpreadOverAny(spread_chk))

\* the same with the median positive, where the code agrees
C24_SpreadBlockedIffAnyLimitPositiveMed ==
    (spread_chk.called /\ spread_chk.med > 0)
        => (spread_chk.blocked <=> SpreadOverAny(spread_chk))

\* a call that lets a spread above 2.5 x a negative median through
C24_NegativeMedianPasses ==
    ~(spread_chk.called /\ spread_chk.med < 0 /\ ~spread_chk.blocked)


\* ---- C25 ----
\* the three override conditions as the specification words them, on the
\* arguments of the last call and the strength seen by the call before it
MgmtOverrideA ==
    /\ mgmt_call.ctx.distance_atr_ratio >= DIST_OVERRIDE_THR
    /\ mgmt_prev_str = "STRONG"
    /\ mgmt_call.qtrend_str = "NORMAL"
MgmtOverrideB ==
    \/ /\ mgmt_call.action = "BUY"
       /\ mgmt_call.zone.confirmed_resist
       /\ mgmt_call.qtrend_dir = "SELL"
    \/ /\ mgmt_call.action = "SELL"
       /\ mgmt_call.zone.confirmed_support
       /\ mgmt_call.qtrend_dir = "BUY"
MgmtOverrideC == mgmt_call.ctx.vol_state = "PANIC"
MgmtReturned == mgmt_res.called /\ mgmt_res.raised = ""
MgmtOverrideSet == MgmtReturned /\ mgmt_res.mgmt.override_close

\* C25: ai_position_management sets override_close, whatever the phase,
\* exactly when (a) the distance ratio is at or above DIST_OVERRIDE_THR and
\* trend strength has gone from STRONG to NORMAL, or (b) a confirmed zone
\* opposes the position and the trend direction is against it, or (c)
\* vol_state is PANIC; otherwise override_close is false.
C25_OverrideCloseExactly ==
    mgmt_call.called =>
        (MgmtOverrideSet <=> (MgmtOverrideA \/ MgmtOverrideB \/ MgmtOverrideC))

\* what the code does: for a timezone-aware entry_time, and with (a) read
\* as "strength is NORMAL now", the three conditions decide override_close
C25_OverrideCloseOfAwareNormal ==
    (mgmt_call.called /\ mgmt_call.tz_aware) =>
        (MgmtOverrideSet <=>
            \/ /\ mgmt_call.ctx.distance_atr_ratio >= DIST_OVERRIDE_THR
               /\ mgmt_call.qtrend_str = "NORMAL"
            \/ MgmtOverrideB
            \/ MgmtOverrideC)

\* override (a) fires on a position whose strength was never STRONG
C25_OverrideWithoutNormalizing ==
    ~(MgmtOverrideSet /\ mgmt_res.mgmt.override_reason = "MEAN_REVERT"
      /\ mgmt_prev_str # "STRONG")

\* a PANIC call with a naive entry_time sets nothing: it raises
C25_PanicCallRaises ==
    ~(mgmt_call.called /\ MgmtOverrideC /\ mgmt_res.raised = "TypeError")

\* ---- C26 ----
MgmtProfitOfCall ==
    MgmtProfit(mgmt_call.entry_price, mgmt_call.current_price, mgmt_call.action)
MgmtNurtureCase ==
    /\ mgmt_call.elapsed < PHASE_TIME_THR_SEC
    /\ ~ProfitRAtLeast(MgmtProfitOfCall, mgmt_call.sl_dist, PHASE_PROFIT_THR_R)

\* C26: in every ManagementAction returned, phase is NURTURE iff the
\* holding time is below PHASE_TIME_THR_SEC and profit_r is below
\* PHASE_PROFIT_THR_R, else PROTECT; partial_tp only in PROTECT with
\* profit_r at least 0.8 and without override_close, so the two flags are
\* never both true and partial_tp is never set in NURTURE.
C26_PhaseAndPartialTp ==
    MgmtReturned =>
        /\ mgmt_res.mgmt.phase = (IF MgmtNurtureCase THEN "NURTURE" ELSE "PROTECT")
        /\ mgmt_res.mgmt.partial_tp =>
              /\ mgmt_res.mgmt.phase = "PROTECT"
              /\ ProfitRAtLeast(MgmtProfitOfCall, mgmt_call.sl_dist, 80)
              /\ ~mgmt_res.mgmt.override_close

\* a PROTECT result reached by time alone, with partial_tp set, and an
\* earlier kind of result (NURTURE) also exists
C26_Witness ==
    /\ MgmtReturned
    /\ mgmt_res.mgmt.partial_tp
    /\ mgmt_call.elapsed >= PHASE_TIME_THR_SEC
    /\ ~ProfitRAtLeast(MgmtProfitOfCall, mgmt_call.sl_dist, PHASE_PROFIT_THR_R)


\* ---- C27 ----
\* the resolver returned snapshot values, and they are what one object of
\* tv_log, fresh by its own recv_ts, resolves to
SnapshotReadOfOne ==
    \E ref \in 1..Len(tv_log) :
        hybrid_res.r = resolve_hybrid_ai_inputs(tv_log[ref], hybrid_res.t,
                           SnapshotLocal, SnapshotLocal.ctx.atr_m5, 2, "S")

\* the object g_tv_cache refers to is one that a single alert produced
SnapshotPublishedWhole == g_tv_cache = TvDeref(tv_log, tv_pub)

\* no step changes an object once built
SnapshotObjectsKept ==
    /\ Len(tv_log') >= Len(tv_log)
    /\ \A ref \in 1..Len(tv_log) : tv_log'[ref] = tv_log[ref]

\* C27: under every interleaving of webhook requests and the main loop the
\* snapshot that resolve_hybrid_ai_inputs reads has all its fields, recv_ts
\* included, from one alert; g_tv_cache is replaced whole, and an object
\* once published is never changed.
C27_SnapshotReadAtomically ==
    /\ [](SnapshotPublishedWhole)
    /\ []((hybrid_res.called /\ hybrid_res.r.source_tag = "TV")
             => SnapshotReadOfOne)
    /\ [][SnapshotObjectsKept]_vars

\* the resolver returned the first alert's values when a second, different
\* alert had already replaced it in g_tv_cache
C27_Witness ==
    /\ hybrid_res.called
    /\ hybrid_res.r.source_tag = "TV"
    /\ hybrid_res.published = 2
    /\ tv_log[1] # tv_log[2]
    /\ hybrid_res.tv = tv_log[1]


\* ---- C28 ----
\* the payload send_signal builds from the returned LRRSignal, as far as
\* the claim reads it
OrderOf(sig) ==
    [type |-> "ORDER", action |-> sig.action, multiplier |-> sig.multiplier]

\* the filters the claim names, in its order, each letting the setup through
GatesInClaimOrder ==
    <<"session", "news", "spread", "sweep", "volume", "mtf", "ai_gate">>
GatesNamed(gates) ==
    SelectSeq(gates, LAMBDA g : \E i \in 1..Len(GatesInClaimOrder) :
                                    g.gate = GatesInClaimOrder[i])
CycleReturnedSignal == poll_last.called /\ poll_last.outcome = "signal"

\* C28: a signal is returned for a closed bar, and so an ORDER dispatched,
\* only if for that bar the session rank was not INVALID, no news block was
\* active, the spread was not blocked, detect_sweep returned a direction,
\* the volume filter passed, the MTF check was not parabolic and
\* ai_gate_keeper returned ENTER, evaluated in this order; the ORDER carries
\* the sweep's direction and a multiplier greater than 0.
C28_OrderOnlyAfterAllGates ==
    CycleReturnedSignal =>
        LET g == GatesNamed(poll_last.gates)
            order == OrderOf(poll_last.signal.sig)
        IN  /\ [i \in 1..Len(g) |-> g[i].gate] = GatesInClaimOrder
            /\ \A i \in 1..Len(g) : g[i].ok
            /\ g[4].detail \in {"BUY", "SELL"}
            /\ g[7].detail = "ENTER"
            /\ order.action = g[4].detail
            /\ order.multiplier > 0

\* a SELL signal returned with the reduced multiplier of a counter-trend
\* MTF reading
C28_Witness ==
    /\ CycleReturnedSignal
    /\ poll_last.signal.sig.action = "SELL"
    /\ poll_last.signal.sig.multiplier < 100


\* ---- C29 ----
\* the lower-pool conditions of the last call, read off the bar alone
SweepLowerHolds ==
    /\ SweepLowerPierce
    /\ sweep_call.swing_low - sweep_call.bar.low <= SWEEP_MAX_PIPS
    /\ sweep_call.bar.close > sweep_call.swing_low
    /\ SweepWickLower <= 3 * SweepBody

\* C29: the verdict on the lower pool does not depend on the bar's high:
\* every bar that meets the lower-sweep conditions yields BUY, also when
\* its high is above swing_high + SWEEP_MIN_PIPS.
C29_LowerSweepIgnoresHigh ==
    (sweep_call.called /\ SweepLowerHolds) => sweep_res.action = "BUY"

\* with the high at or below swing_high + SWEEP_MIN_PIPS the lower
\* conditions do yield BUY
C29_LowerSweepBelowUpperPool ==
    (sweep_call.called /\ SweepLowerHolds /\ ~SweepUpperPierce)
        => sweep_res.action = "BUY"

\* a bar through both pools that fails an upper condition returns nothing
C29_OutsideBarDropped ==
    ~(sweep_call.called /\ SweepLowerHolds /\ SweepUpperPierce
      /\ sweep_res.action = "NONE")


\* ---- C30 ----
\* what is_news_blocked answers in this state
NewsBlockedNow ==
    is_news_blocked(news_cfg, g_news_block_until, news_clock).blocked
NewsIterationJustEnded == news_last.called /\ news_last.t = news_clock

\* C30: after every main-loop iteration the news_block value of the last
\* NEWS_BLOCK message sent successfully equals the current answer of
\* is_news_blocked (no message being needed while the status is still the
\* initial unblocked one), also across send failures and halted iterations.
C30_NewsBlockInSync ==
    NewsIterationJustEnded =>
        IF news_sent.called THEN news_sent.news_block = NewsBlockedNow
        ELSE ~NewsBlockedNow

\* the same for iterations that were not halted, while no send has failed
\* since the status last changed
C30_NewsBlockInSyncWhenSent ==
    (NewsIterationJustEnded /\ news_last.asked
     /\ (news_last.changed => news_last.ok))
        => (news_last.changed => (/\ news_sent.called
                                  /\ news_sent.news_block = NewsBlockedNow))

\* an iteration that asked, found the status changed, and lost the message
C30_SendFailureForgotten ==
    ~(NewsIterationJustEnded /\ news_last.asked /\ news_last.changed
      /\ ~news_last.ok /\ NewsBlockedNow /\ ~news_sent.called)

\* a halted iteration during the block window
C30_HaltedIterationSilent ==
    ~(NewsIterationJustEnded /\ news_last.halted /\ NewsBlockedNow
      /\ ~news_sent.called)

====
